---------------------------- MODULE Spec2Model ----------------------------
(***************************************************************************)
(* Model of the hardware-control core of RAI-MINI (system_controls.py):    *)
(* the public brightness / volume / microphone operations, the process-    *)
(* wide lock, the choice between the NirCmd helper, the native audio       *)
(* endpoint interface and the PowerShell bridge, and the handle and        *)
(* apartment lifecycle of one native call (_with_audio_endpoint).          *)
(*                                                                         *)
(* Every public operation is run by a thread as a sequence of steps; one   *)
(* action models one step of the code.  The operating system (audio state, *)
(* presence of nircmd.exe, status codes of the component-model calls, exit *)
(* codes of subprocesses) is the environment and is chosen freely.         *)
(*                                                                         *)
(* The specifications of system_controls.py share the actions: Spec, two   *)
(* threads calling the operations concurrently; SpecSeq, one caller        *)
(* running operations one after another with a wider choice of inputs;     *)
(* SpecEnv, one caller while the helper and the default device change      *)
(* between its operations; SpecPair, two threads adjusting the volume on   *)
(* the native path; SpecFn, the normalizers applied to one input.          *)
(*                                                                         *)
(* Of scheduler.py the module models parse_duration as a pure function     *)
(* (SpecDur) and the reminders with their timer threads (SpecSched).       *)
(***************************************************************************)
EXTENDS Integers, Sequences, FiniteSets, TLC

(***************************************************************************)
(* Bounds of the model.                                                    *)
(***************************************************************************)
\* public operations invoked in one behaviour, over all threads
MaxCalls == 2
\* public operations the single caller of SpecSeq invokes, one after another
SeqCalls == 2
\* largest magnitude, in tenths, of a numeric input handed to a normalizer
FnRange == 1505

Threads == {"t1", "t2"}
NoThread == "none"

(***************************************************************************)
(* Program constants.                                                      *)
(***************************************************************************)
S_OK == 0
S_FALSE == 1
RPC_E_CHANGED_MODE == -2147417850
\* any other failure status (E_FAIL); only its sign matters to the code
E_FAIL == -2147467259
EDATAFLOW_RENDER == 0
EDATAFLOW_CAPTURE == 1
\* full scale of the helper's volume steps (nircmd setsysvolume 0..65535)
NircmdFullScale == 65535
\* default of _normalize_delta as passed by volume_up / volume_down
DefaultDelta == 5

\* The volume scalar of an endpoint, in [0.0, 1.0], is kept exactly as an
\* integer number of units of 1/(100 * 65535): a percent p is p * 65535 units
\* and a helper step s is s * 100 units.
VolFull == 100 * NircmdFullScale

Min(a, b) == IF a <= b THEN a ELSE b
Max(a, b) == IF a >= b THEN a ELSE b

(***************************************************************************)
(* Inputs of the public operations.  A numeric input is a number of tenths *)
(* (336 is 33.6), given as a number or as a numeric string; the other      *)
(* inputs are a non-numeric string, None, NaN and +/- infinity.            *)
(***************************************************************************)
Num(n) == [k |-> "num", n |-> n]
NumStr(n) == [k |-> "numstr", n |-> n]
Text == [k |-> "text", n |-> 0]
None == [k |-> "none", n |-> 0]
NaN == [k |-> "nan", n |-> 0]
Inf == [k |-> "inf", n |-> 1]
NegInf == [k |-> "inf", n |-> -1]

\* Python's round() of a float with one decimal, given in tenths: to the
\* nearest integer, a tie (x.5, exact in binary) to the even neighbour.
PyRound(n) ==
    LET q == n \div 10
        r == n % 10
    IN  IF r < 5 THEN q
        ELSE IF r > 5 THEN q + 1
        ELSE IF q % 2 = 0 THEN q ELSE q + 1

\* Outcome of a normalizer: a value or the exception it raises.
Val(v) == [kind |-> "ok", val |-> v]
Raise(e) == [kind |-> e, val |-> 0]

\* Variant: None counts as zero (float(x or 0)).
IsNumericOrNone(x) == x.k \in {"num", "numstr", "nan", "inf", "none"}

\* float(x): TypeError / ValueError for None and non-numeric text.
IsNumeric(x) == x.k \in {"num", "numstr", "nan", "inf"}

NormalizePercent(x) ==
    IF ~IsNumeric(x) THEN Raise("ValueError")
    ELSE IF x.k = "nan" THEN Raise("ValueError")
    ELSE IF x.k = "inf" THEN Raise("OverflowError")
    ELSE Val(Max(0, Min(100, PyRound(x.n))))

NormalizeDelta(x, default) ==
    IF x.k = "none" THEN Val(default)
    ELSE IF ~IsNumeric(x) THEN Raise("ValueError")
    ELSE IF x.k = "nan" THEN Raise("ValueError")
    ELSE IF x.k = "inf" THEN Raise("OverflowError")
    ELSE Val(Max(-100, Min(100, PyRound(x.n))))

\* Variant: int(percent / 100) * 65535, the truncation taken too early.
VolumePercentToStepIntFirst(percent) == (percent \div 100) * NircmdFullScale

\* _volume_percent_to_step: int(percent / 100 * 65535), truncation of a
\* non-negative product (the float product truncates to the exact quotient
\* for every percent in 0..100).
VolumePercentToStep(percent) == (percent * NircmdFullScale) \div 100

\* int(round(scalar * 100)) of a scalar given in units:
\* scalar * 100 is u / 65535; 65535 is odd, so there is no tie.
ScalarToPercent(u) ==
    LET q == u \div NircmdFullScale
        r == u % NircmdFullScale
    IN  IF 2 * r < NircmdFullScale THEN q ELSE q + 1

ClampScalar(u) == Max(0, Min(VolFull, u))


(***************************************************************************)
(* State.                                                                  *)
(***************************************************************************)
VARIABLES
    lock,       \* _lock: the thread holding it, or NoThread
    helper,     \* environment: nircmd.exe is discoverable now
    hw,         \* environment: the state the OS owns (volume, mutes, brightness)
    pc,         \* per thread: position in the public operation it runs
    op,         \* per thread: the public operation it runs
    arg,        \* per thread: valor / ajuste after normalization
    nircmd,     \* per thread: the local nircmd of the operation (found or not)
    com,        \* per thread: the current call of _with_audio_endpoint
    exc,        \* per thread: the exception being propagated, or "none"
    res,        \* per thread: what the operation returned or raised
    log,        \* per thread: the backend interactions of the operation so far
    calls,      \* public operations invoked so far
    fault,      \* per thread: the last failure inside the operation, or "none"
    hist,       \* one caller, operations in sequence: its last two calls
    fn,         \* the application of a pure function, if one is made
    sched       \* scheduler.py: its tables, its callers and its timer threads

vars == <<lock, helper, hw, pc, op, arg, nircmd, com, exc, res, log, calls,
          fault, hist, fn, sched>>

Handles == {"enumerator", "device", "endpoint"}

MutatingOps == {"set_brightness", "set_volume", "volume_up", "volume_down",
                "volume_mute", "volume_unmute", "mic_mute", "mic_unmute"}
MutatingVolumeOps == MutatingOps \ {"set_brightness"}
ReadOps == {"get_volume", "get_brightness"}
PublicOps == MutatingOps \cup ReadOps
AdjustOps == {"volume_up", "volume_down"}
MuteOps == {"volume_mute", "volume_unmute", "mic_mute", "mic_unmute"}

\* positions of one call of _with_audio_endpoint
NativePcs == {"coinit", "cocreate", "getdev", "activate", "callback",
              "finally", "native_ret"}
\* positions at which an operation probes or uses a backend
BackendPcs == {"probe", "probe2", "run", "wait", "blocked"} \cup NativePcs
\* positions between entering and leaving `with _lock:`
CriticalPcs == BackendPcs \cup {"release"}

NoCom == [cb |-> "none", flow |-> EDATAFLOW_RENDER, val |-> 0, hr |-> 0,
          need_uninit |-> FALSE, tried |-> {}, acq |-> {},
          rel |-> [h \in Handles |-> 0], uninit |-> 0, ret |-> 0,
          dev |-> "none"]
NoRes == [kind |-> "none", val |-> 0]

\* A fresh call _with_audio_endpoint(data_flow, callback); val is the scalar
\* (or the mute flag) captured by the callback's closure.
NewCom(cb, flow, val) == [NoCom EXCEPT !.cb = cb, !.flow = flow, !.val = val]

Entry(b, c, t) == [b |-> b, c |-> c, locked |-> (lock = t)]

\* The state the OS owns before any of it was set.
\* dev is the audio device that is the default one now.
Devices == {"speakers", "headset"}
NoHw == [vol |-> 0, mute |-> FALSE, mic |-> FALSE, bright |-> 0,
         dev |-> "speakers"]

\* A call in the history of one caller that runs its operations in
\* sequence: the operation, its input, the OS state when it was called,
\* and (once it is over) whether it succeeded.  hist holds the call before
\* the current one, if there is one, and the current or latest call.
NoCall == [op |-> "none", inp |-> None, h0 |-> NoHw, ok |-> FALSE]
NoHist == <<>>
Cur == IF hist = <<>> THEN NoCall ELSE hist[Len(hist)]
Prev == IF Len(hist) = 2 THEN hist[1] ELSE NoCall

\* One application of _normalize_percent or _normalize_delta: x is the
\* input, d the default handed to _normalize_delta, out the outcome.  fn
\* holds the application, if one is made.
\* scheduler.py is not in use.
NoSched == <<>>

NoFn == [f |-> "none", x |-> None, d |-> 0, out |-> NoRes]
App == IF fn = <<>> THEN NoFn ELSE fn[1]

(***************************************************************************)
(* Inputs the threads pass to the public operations.                       *)
(***************************************************************************)
OpInputs(o) ==
    IF o \in {"set_brightness", "set_volume"} THEN {Num(1000), Text}
    ELSE IF o \in AdjustOps THEN {Num(1000), Num(0)}
    ELSE {None}

\* Variant: volume_up / volume_down take whatever _normalize_delta returns.
ValidateAnySign(o, x) ==
    IF o \in {"set_brightness", "set_volume"} THEN NormalizePercent(x)
    ELSE IF o \in AdjustOps THEN NormalizeDelta(x, DefaultDelta)
    ELSE Val(0)

\* The validation a public operation performs before `with _lock:`.
Validate(o, x) ==
    IF o \in {"set_brightness", "set_volume"} THEN NormalizePercent(x)
    ELSE IF o \in AdjustOps THEN
        LET d == NormalizeDelta(x, DefaultDelta)
        IN  IF d.kind = "ok" /\ d.val <= 0 THEN Raise("ValueError") ELSE d
    ELSE Val(0)

TypeOK ==
    /\ lock \in Threads \cup {NoThread}
    /\ helper \in BOOLEAN
    /\ hw.vol \in 0..VolFull /\ hw.mute \in BOOLEAN /\ hw.mic \in BOOLEAN
    /\ hw.bright \in 0..100 /\ hw.dev \in Devices
    /\ \A t \in Threads :
        /\ pc[t] \in {"idle", "acquire", "done"} \cup CriticalPcs
        /\ op[t] \in PublicOps \cup {"none"}
        /\ fault[t] = "none" \/ pc[t] # "idle"
    /\ calls \in 0..(MaxCalls + SeqCalls)
    /\ Len(hist) <= 2 /\ Cur.op \in PublicOps \cup {"none"}
    /\ Len(fn) <= 1
    /\ App.out.kind \in {"none", "ok", "ValueError", "OverflowError"}

\* No thread is inside a public operation.
Idle ==
    /\ lock = NoThread
    /\ pc = [t \in Threads |-> "idle"]
    /\ op = [t \in Threads |-> "none"]
    /\ arg = [t \in Threads |-> 0]
    /\ nircmd = [t \in Threads |-> FALSE]
    /\ com = [t \in Threads |-> NoCom]
    /\ exc = [t \in Threads |-> "none"]
    /\ res = [t \in Threads |-> NoRes]
    /\ log = [t \in Threads |-> <<>>]
    /\ fault = [t \in Threads |-> "none"]
    /\ calls = 0

Init ==
    /\ Idle
    /\ helper \in BOOLEAN
    /\ hw \in [vol : {0}, mute : {FALSE}, mic : {FALSE}, bright : {0},
             dev : {"speakers"}]
    /\ hist = NoHist
    /\ fn = <<>>
    /\ sched = NoSched


(***************************************************************************)
(* The lock and the choice of backend.                                     *)
(***************************************************************************)
\* Variant: every public operation, the reads included, takes the lock.
AcquiresLockAll(o) == TRUE

\* Variant: volume_up and volume_down read and write outside the lock.
AcquiresLockExceptAdjust(o) == o \in MutatingOps \ AdjustOps

\* The operations whose body runs inside `with _lock:`.
AcquiresLock(o) == o \in MutatingOps

\* Variant: entering the body without waiting for the lock.
CanAcquireAlways(t) == TRUE

\* threading.Lock: acquire blocks while another thread holds the lock.
CanAcquire(t) == lock = NoThread

\* Variant: the lock is released on normal return only (acquire / release
\* around the body without try / finally).
LockKeptOnError(t) == IF res[t].kind \in {"ok", "unit"} THEN NoThread ELSE t

\* Leaving `with _lock:` releases the lock, whether the body returned or raised.
LockAfterBody(t) == NoThread

\* Variant: the helper is never preferred.
BackendNoHelper(o, found) ==
    IF o = "set_brightness" THEN "bridge" ELSE "native"

\* Variant: set_brightness goes to PowerShell without looking at nircmd.
BackendBridgeFirst(o, found) ==
    IF o = "set_brightness" THEN "bridge"
    ELSE IF found THEN "helper"
    ELSE "native"

\* `if nircmd: ... else: ...` of the mutating operations: the helper when
\* _find_nircmd found it, else PowerShell for brightness and the native
\* interface for volume and mute.
Backend(o, found) ==
    IF found THEN "helper"
    ELSE IF o = "set_brightness" THEN "bridge"
    ELSE "native"

\* The helper-path operations that go through _run_nircmd_volume, which
\* looks for nircmd.exe a second time.
ViaRunNircmdVolume(o) == o \in {"set_volume", "volume_up", "volume_down"}

\* Variant: after the helper ran, the requested delta is returned unread.
NoReadBack(o) == FALSE

\* On the helper path volume_up / volume_down read the volume back through
\* the native interface after the helper ran.
ReadsBackAfterHelper(o) == o \in AdjustOps

\* First position of the body of an operation, and its native call if it
\* starts with one.
BodyPc(o) ==
    IF o \in MutatingOps THEN "probe"
    ELSE IF o = "get_volume" THEN "coinit"
    ELSE "run"
BodyCom(o) ==
    IF o = "get_volume" THEN NewCom("get", EDATAFLOW_RENDER, 0) ELSE NoCom

\* Variant: muting done by setting the volume, to zero and back to full.
FirstNativeCallMuteByVolume(o, valor) ==
    CASE o = "set_volume" -> NewCom("set", EDATAFLOW_RENDER, ClampScalar(valor * NircmdFullScale))
      [] o \in AdjustOps -> NewCom("get", EDATAFLOW_RENDER, 0)
      [] o = "volume_mute" -> NewCom("set", EDATAFLOW_RENDER, 0)
      [] o = "volume_unmute" -> NewCom("set", EDATAFLOW_RENDER, VolFull)
      [] o = "mic_mute" -> NewCom("mute", EDATAFLOW_CAPTURE, 1)
      [] o = "mic_unmute" -> NewCom("mute", EDATAFLOW_CAPTURE, 0)

\* The native call an operation starts with on the native path.
FirstNativeCall(o, valor) ==
    CASE o = "set_volume" -> NewCom("set", EDATAFLOW_RENDER, ClampScalar(valor * NircmdFullScale))
      [] o \in AdjustOps -> NewCom("get", EDATAFLOW_RENDER, 0)
      [] o = "volume_mute" -> NewCom("mute", EDATAFLOW_RENDER, 1)
      [] o = "volume_unmute" -> NewCom("mute", EDATAFLOW_RENDER, 0)
      [] o = "mic_mute" -> NewCom("mute", EDATAFLOW_CAPTURE, 1)
      [] o = "mic_unmute" -> NewCom("mute", EDATAFLOW_CAPTURE, 0)

\* Variant: the helper's mute command for the microphone lacks the
\* "microphone" argument and acts on the output device.
CommandNoMicrophone(o, b, valor) ==
    CASE o = "set_brightness" /\ b = "helper" -> [c |-> "setbrightness", v |-> valor]
      [] o = "set_brightness" /\ b = "bridge" -> [c |-> "WmiSetBrightness", v |-> valor]
      [] o = "get_brightness" -> [c |-> "CurrentBrightness", v |-> 0]
      [] o = "set_volume" -> [c |-> "setsysvolume", v |-> VolumePercentToStep(valor)]
      [] o = "volume_up" -> [c |-> "changesysvolume", v |-> VolumePercentToStep(valor)]
      [] o = "volume_down" -> [c |-> "changesysvolume", v |-> -VolumePercentToStep(valor)]
      [] o \in {"volume_mute", "mic_mute"} -> [c |-> "mutesysvolume", v |-> 1]
      [] o \in {"volume_unmute", "mic_unmute"} -> [c |-> "mutesysvolume", v |-> 0]

\* The command line an operation hands to subprocess.run.
Command(o, b, valor) ==
    CASE o = "set_brightness" /\ b = "helper" -> [c |-> "setbrightness", v |-> valor]
      [] o = "set_brightness" /\ b = "bridge" -> [c |-> "WmiSetBrightness", v |-> valor]
      [] o = "get_brightness" -> [c |-> "CurrentBrightness", v |-> 0]
      [] o = "set_volume" -> [c |-> "setsysvolume", v |-> VolumePercentToStep(valor)]
      [] o = "volume_up" -> [c |-> "changesysvolume", v |-> VolumePercentToStep(valor)]
      [] o = "volume_down" -> [c |-> "changesysvolume", v |-> -VolumePercentToStep(valor)]
      [] o = "volume_mute" -> [c |-> "mutesysvolume", v |-> 1]
      [] o = "volume_unmute" -> [c |-> "mutesysvolume", v |-> 0]
      [] o = "mic_mute" -> [c |-> "mutesysvolume microphone", v |-> 1]
      [] o = "mic_unmute" -> [c |-> "mutesysvolume microphone", v |-> 0]

\* What a command that exits with code 0 does to the state the OS owns.
Effect(h, cmd) ==
    CASE cmd.c \in {"setbrightness", "WmiSetBrightness"} -> [h EXCEPT !.bright = cmd.v]
      [] cmd.c = "setsysvolume" -> [h EXCEPT !.vol = ClampScalar(cmd.v * 100)]
      [] cmd.c = "changesysvolume" -> [h EXCEPT !.vol = ClampScalar(@ + cmd.v * 100)]
      [] cmd.c = "mutesysvolume" -> [h EXCEPT !.mute = (cmd.v = 1)]
      [] cmd.c = "mutesysvolume microphone" -> [h EXCEPT !.mic = (cmd.v = 1)]
      [] OTHER -> h

Unit == [kind |-> "unit", val |-> 0]

(***************************************************************************)
(* Entering and leaving a public operation.                                *)
(***************************************************************************)
\* The body of the operation of thread t ends with result r (a value or an
\* exception): a locked operation goes on to release the lock.
Finish(t, r) ==
    /\ res' = [res EXCEPT ![t] = r]
    /\ pc' = [pc EXCEPT ![t] = IF AcquiresLock(op[t]) THEN "release" ELSE "done"]

\* The prologue of public operation o, called by thread t with input x:
\* validation precedes `with _lock:`, and a validation error leaves the
\* operation at once.
Invoke(t, o, x) ==
    LET v == Validate(o, x) IN
    /\ pc[t] = "idle"
    /\ calls' = calls + 1
    /\ op' = [op EXCEPT ![t] = o]
    /\ IF v.kind # "ok"
       THEN /\ res' = [res EXCEPT ![t] = v]
            /\ fault' = [fault EXCEPT ![t] = "validation"]
            /\ pc' = [pc EXCEPT ![t] = "done"]
            /\ UNCHANGED <<arg, com>>
       ELSE /\ arg' = [arg EXCEPT ![t] = v.val]
            /\ pc' = [pc EXCEPT ![t] =
                        IF AcquiresLock(o) THEN "acquire" ELSE BodyPc(o)]
            /\ com' = [com EXCEPT ![t] =
                        IF AcquiresLock(o) THEN NoCom ELSE BodyCom(o)]
            /\ UNCHANGED <<res, fault>>
    /\ UNCHANGED <<lock, helper, hw, nircmd, exc, log, fn, sched>>

\* A thread calls a public operation.
Call(t) ==
    /\ calls < MaxCalls
    /\ \E o \in PublicOps : \E x \in OpInputs(o) : Invoke(t, o, x)
    /\ UNCHANGED hist

\* `with _lock:` entered.
Acquire(t) ==
    /\ pc[t] = "acquire"
    /\ CanAcquire(t)
    /\ lock' = t
    /\ pc' = [pc EXCEPT ![t] = BodyPc(op[t])]
    /\ com' = [com EXCEPT ![t] = BodyCom(op[t])]
    /\ UNCHANGED <<helper, hw, op, arg, nircmd, exc, res, log, calls, fault, hist, fn, sched>>

\* `with _lock:` left, the result or the exception goes to the caller.
Release(t) ==
    /\ pc[t] = "release"
    /\ lock' = LockAfterBody(t)
    /\ pc' = [pc EXCEPT ![t] = "done"]
    /\ UNCHANGED <<helper, hw, op, arg, nircmd, com, exc, res, log, calls, fault, hist, fn, sched>>

\* The operation of thread t is over and its locals are gone.
Leave(t) ==
    /\ pc[t] = "done"
    /\ pc' = [pc EXCEPT ![t] = "idle"]
    /\ op' = [op EXCEPT ![t] = "none"]
    /\ arg' = [arg EXCEPT ![t] = 0]
    /\ nircmd' = [nircmd EXCEPT ![t] = FALSE]
    /\ com' = [com EXCEPT ![t] = NoCom]
    /\ exc' = [exc EXCEPT ![t] = "none"]
    /\ res' = [res EXCEPT ![t] = NoRes]
    /\ log' = [log EXCEPT ![t] = <<>>]
    /\ fault' = [fault EXCEPT ![t] = "none"]
    /\ UNCHANGED <<lock, helper, hw, calls, fn, sched>>

\* The caller has the result; the thread is free to call again.
Return(t) == Leave(t) /\ UNCHANGED hist

(***************************************************************************)
(* Helper discovery and subprocesses.                                      *)
(***************************************************************************)
\* Variant: the helper is looked up in the first operation and the answer is
\* kept for the later ones.
FindNircmdCached == IF Prev.op # "none" THEN Prev.found ELSE helper

\* _find_nircmd(): shutil.which and the two files next to the program are
\* looked up at every call; nothing of an earlier lookup is kept.
FindNircmd == helper

\* nircmd = _find_nircmd() of a mutating operation, and the branch taken.
Probe(t) ==
    /\ pc[t] = "probe"
    /\ nircmd' = [nircmd EXCEPT ![t] = FindNircmd]
    /\ log' = [log EXCEPT ![t] = Append(@, Entry("probe", "_find_nircmd", t))]
    /\ LET b == Backend(op[t], FindNircmd) IN
        /\ pc' = [pc EXCEPT ![t] =
                    IF b = "native" THEN "coinit"
                    ELSE IF b = "helper" /\ ViaRunNircmdVolume(op[t]) THEN "probe2"
                    ELSE "run"]
        /\ com' = [com EXCEPT ![t] =
                    IF b = "native" THEN FirstNativeCall(op[t], arg[t]) ELSE NoCom]
    /\ UNCHANGED <<lock, helper, hw, op, arg, exc, res, calls, fault, hist, fn, sched>>

\* _run_nircmd_volume: a second _find_nircmd(), RuntimeError if it finds none.
Probe2(t) ==
    /\ pc[t] = "probe2"
    /\ log' = [log EXCEPT ![t] = Append(@, Entry("probe", "_find_nircmd", t))]
    /\ IF FindNircmd
       THEN pc' = [pc EXCEPT ![t] = "run"] /\ UNCHANGED <<res, fault>>
       ELSE /\ Finish(t, Raise("RuntimeError: NirCmd no disponible"))
            /\ fault' = [fault EXCEPT ![t] = "RuntimeError: NirCmd no disponible"]
    /\ UNCHANGED <<lock, helper, hw, op, arg, nircmd, com, exc, calls, hist, fn, sched>>

\* Variant: a non-zero exit code is logged and the operation returns None,
\* whichever operation it is.
ExitFailureSwallowed(o) == Unit

\* What a non-zero exit code of the external process makes of operation o:
\* _run_subprocess raises RuntimeError; get_brightness returns None.
ExitFailure(o) ==
    IF o = "get_brightness" THEN Unit ELSE Raise("RuntimeError: comando externo")

\* Whether subprocess.run starts the executable it is given, the helper at
\* the path _find_nircmd returned or powershell.exe: the process is
\* started, or the call raises FileNotFoundError (nothing at that path now,
\* wherever else a helper may be), PermissionError (what is there may not
\* be executed: _find_nircmd asks only whether it exists) or a plain
\* OSError (what is there is not a program the system can run: Exec format
\* error, WinError 193).  No caller catches any of them.
ProcessStarts == {"started", "FileNotFoundError", "PermissionError", "OSError"}

\* How the process started by subprocess.run ends: with exit code 0, with a
\* non-zero exit code, or not at all.
ProcessEnds == {"returncode 0", "returncode 1", "never"}

\* What powershell.exe wrote for get_brightness when it exited with code 0
\* and its output was text: an integer, text that int() rejects, or nothing
\* (no display reports a brightness).
BridgeOutputs == {"value", "unparsable output", "no display"}

\* The integer the bridge prints when it prints one: the display's level, or
\* whatever else the WMI provider reports (150, say); int(texto) is returned
\* as it is.
BridgeValues(h) == {h.bright, 150}

\* The backend and the command of the subprocess.run of thread t.
RunBackend(t) == IF op[t] = "get_brightness" THEN "bridge" ELSE Backend(op[t], nircmd[t])
RunCommand(t) == Command(op[t], RunBackend(t), arg[t])

\* subprocess.run of the helper or of powershell.exe, first half: the
\* process is started.  An exception of the start leaves _run_subprocess;
\* the mutating operations log it and raise it again, and get_brightness,
\* which has no try around the call, lets it pass.
Run(t) ==
    /\ pc[t] = "run"
    /\ log' = [log EXCEPT ![t] = Append(@, Entry(RunBackend(t), RunCommand(t).c, t))]
    /\ \E start \in ProcessStarts :
        IF start = "started"
        THEN /\ pc' = [pc EXCEPT ![t] = "wait"]
             /\ UNCHANGED <<res, fault>>
        ELSE /\ Finish(t, Raise(start))
             /\ fault' = [fault EXCEPT ![t] = start]
    /\ UNCHANGED <<lock, helper, hw, op, arg, nircmd, com, exc, calls, hist, fn, sched>>

\* subprocess.run, second half: the wait for the exit of the process, and
\* what follows it.  subprocess.run is called without a timeout: it returns
\* when the process exits, and a process that never exits leaves the caller
\* waiting in it.  What the process does to the state of the OS happens
\* during the wait.  With text=True what the process wrote is decoded
\* before subprocess.run returns: bytes that are no text in the locale's
\* encoding raise UnicodeDecodeError there, whatever the exit code was.
Wait(t) ==
    /\ pc[t] = "wait"
    /\ \E ended \in ProcessEnds :
        IF ended = "never"
        THEN /\ pc' = [pc EXCEPT ![t] = "blocked"]
             /\ UNCHANGED <<hw, com, res, fault>>
        ELSE
         /\ hw' = IF ended = "returncode 0" THEN Effect(hw, RunCommand(t)) ELSE hw
         /\ \E decoded \in BOOLEAN :
            IF ~decoded
            THEN /\ Finish(t, Raise("UnicodeDecodeError"))
                 /\ fault' = [fault EXCEPT ![t] = "UnicodeDecodeError"]
                 /\ UNCHANGED com
            ELSE IF ended # "returncode 0"
            THEN /\ Finish(t, ExitFailure(op[t]))
                 /\ fault' = [fault EXCEPT ![t] = "RuntimeError: comando externo"]
                 /\ UNCHANGED com
            ELSE IF ReadsBackAfterHelper(op[t])
            THEN /\ pc' = [pc EXCEPT ![t] = "coinit"]
                 /\ com' = [com EXCEPT ![t] = NewCom("get", EDATAFLOW_RENDER, 0)]
                 /\ UNCHANGED <<res, fault>>
            ELSE /\ UNCHANGED com
                 /\ IF op[t] = "get_brightness"
                    THEN \E stdout \in BridgeOutputs :
                            IF stdout = "value"
                            THEN /\ \E texto \in BridgeValues(hw) :
                                        Finish(t, Val(texto))
                                 /\ UNCHANGED fault
                            ELSE /\ Finish(t, Unit)
                                 /\ fault' = [fault EXCEPT ![t] = stdout]
                    ELSE /\ UNCHANGED fault
                         /\ IF op[t] \in MuteOps THEN Finish(t, Unit)
                            ELSE Finish(t, Val(arg[t]))
    /\ UNCHANGED <<lock, helper, op, arg, nircmd, exc, log, calls, hist, fn, sched>>

\* nircmd.exe is installed or removed while the program runs.
ToggleHelper ==
    /\ helper' = ~helper
    /\ UNCHANGED <<lock, hw, pc, op, arg, nircmd, com, exc, res, log, calls, fault, hist, fn, sched>>


(***************************************************************************)
(* One call of _with_audio_endpoint.                                       *)
(*                                                                         *)
(* CoInitializeEx and CoCreateInstance are declared with restype           *)
(* ctypes.HRESULT, and so are the prototypes _com_call builds for methods  *)
(* 4, 3, 9, 7 and 14.  A function with that restype never hands a negative *)
(* status back: ctypes raises OSError at the call.  The code after a call  *)
(* therefore sees only statuses that are not negative, and the branches    *)
(* for a negative one (lines 103-104 and 115-118) never run.               *)
(* CoInitializeEx and CoCreateInstance are outside every try, so an        *)
(* OSError raised by them leaves the function at once, with no finally.    *)
(* _release uses restype c_ulong and swallows every exception.             *)
(*                                                                         *)
(* The handles and the apartment are local to the calling thread, so the   *)
(* finally blocks that follow a step run in the same action as the step.   *)
(***************************************************************************)

\* _succeeded(hr)
Succeeded(hr) == hr >= 0

\* Variant: the status of CoInitializeEx is handed back whatever its sign,
\* as by a function without the HRESULT result type, and the tests of
\* lines 101-106 decide.
InitStepUnchecked(hr) ==
    IF hr \in {S_OK, S_FALSE} THEN "need_uninit"
    ELSE IF hr = RPC_E_CHANGED_MODE THEN "go on"
    ELSE "RuntimeError"

\* Variant: every status is handed back and need_uninit is set whatever
\* the status is.
InitStepAlwaysUninit(hr) == "need_uninit"

\* What follows status hr of CoInitializeEx.  A negative status is raised
\* as OSError by the call itself (line 100).  Of the statuses handed back,
\* 0 and 1 set need_uninit (line 101) and any other raises RuntimeError
\* (lines 102-106: it is not RPC_E_CHANGED_MODE, which is negative).
InitStep(hr) ==
    IF hr < 0 THEN "OSError"
    ELSE IF hr \in {S_OK, S_FALSE} THEN "need_uninit"
    ELSE "RuntimeError"

\* _release(obj): Release() once on a handle that is not null.
ReleaseHandle(c, h) ==
    IF h \in c.acq THEN [c EXCEPT !.rel[h] = @ + 1] ELSE c

\* _ole32.CoUninitialize() guarded by `if need_uninit:`.
Uninit(c) == IF c.need_uninit THEN [c EXCEPT !.uninit = @ + 1] ELSE c

\* What is in flight after the guarded _ole32.CoUninitialize(), when e was
\* in flight before it ("none": a return).  _ole32 is an OleDLL, whose
\* functions have the HRESULT result type unless given another, and
\* CoUninitialize is given none: ctypes reads as a status what the call
\* leaves where a result would be, which CoUninitialize, returning nothing,
\* does not define, and raises OSError when that is negative.  The OSError
\* replaces the return or the exception of the block it is raised in.
AfterUninit(c, e) ==
    IF c.need_uninit THEN {e, "OSError: CoUninitialize"} ELSE {e}

\* Variant: the middle finally does not release the device.
FinallyDeviceSkipped(c) == c

\* The three nested finally blocks, innermost first.
FinallyEndpoint(c) == ReleaseHandle(c, "endpoint")
FinallyDevice(c) == ReleaseHandle(c, "device")
FinallyEnumerator(c) == Uninit(ReleaseHandle(c, "enumerator"))

\* hr = _ole32.CoInitializeEx(None, _COINIT_APARTMENTTHREADED) and the
\* tests of hr that follow it.  The apartment reports S_OK, S_FALSE (this
\* thread is initialized already), RPC_E_CHANGED_MODE or another failure.
CoInit(t) ==
    /\ pc[t] = "coinit"
    /\ \E hr \in {S_OK, S_FALSE, RPC_E_CHANGED_MODE, E_FAIL} :
        LET c == [com[t] EXCEPT !.tried = @ \cup {"init"}, !.hr = hr]
            step == InitStep(hr)
        IN
        IF step \in {"OSError", "RuntimeError"}
        THEN /\ com' = [com EXCEPT ![t] = c]
             /\ exc' = [exc EXCEPT ![t] = "error: CoInitializeEx"]
             /\ fault' = [fault EXCEPT ![t] = "error: CoInitializeEx"]
             /\ pc' = [pc EXCEPT ![t] = "native_ret"]
        ELSE /\ com' = [com EXCEPT ![t] =
                          [c EXCEPT !.need_uninit = (step = "need_uninit")]]
             /\ pc' = [pc EXCEPT ![t] = "cocreate"]
             /\ UNCHANGED <<exc, fault>>
    /\ UNCHANGED <<lock, helper, hw, op, arg, nircmd, res, log, calls, hist, fn, sched>>

\* CoCreateInstance of the device enumerator (line 108).  A failure is
\* raised at the call and leaves the function at once: no try encloses the
\* call, so nothing uninitializes the apartment CoInitializeEx entered.
CoCreate(t) ==
    /\ pc[t] = "cocreate"
    /\ \E ok \in BOOLEAN :
        LET c == [com[t] EXCEPT !.tried = @ \cup {"enumerate"}] IN
        IF ok
        THEN /\ com' = [com EXCEPT ![t] = [c EXCEPT !.acq = @ \cup {"enumerator"}]]
             /\ pc' = [pc EXCEPT ![t] = "getdev"]
             /\ UNCHANGED <<exc, fault>>
        ELSE /\ com' = [com EXCEPT ![t] = c]
             /\ exc' = [exc EXCEPT ![t] = "error: IMMDeviceEnumerator"]
             /\ fault' = [fault EXCEPT ![t] = "error: IMMDeviceEnumerator"]
             /\ pc' = [pc EXCEPT ![t] = "native_ret"]
    /\ UNCHANGED <<lock, helper, hw, op, arg, nircmd, res, log, calls, hist, fn, sched>>

\* GetDefaultAudioEndpoint (method 4) inside the outer try; a failure runs
\* the outer finally.
GetDev(t) ==
    /\ pc[t] = "getdev"
    /\ \E ok \in BOOLEAN :
        LET c == [com[t] EXCEPT !.tried = @ \cup {"resolve"}] IN
        IF ok
        THEN /\ com' = [com EXCEPT ![t] =
                          [c EXCEPT !.acq = @ \cup {"device"}, !.dev = hw.dev]]
             /\ pc' = [pc EXCEPT ![t] = "activate"]
             /\ UNCHANGED <<exc, fault>>
        ELSE /\ com' = [com EXCEPT ![t] = FinallyEnumerator(c)]
             /\ \E e \in AfterUninit(c, "error: dispositivo de audio") :
                    /\ exc' = [exc EXCEPT ![t] = e]
                    /\ fault' = [fault EXCEPT ![t] = e]
             /\ pc' = [pc EXCEPT ![t] = "native_ret"]
    /\ UNCHANGED <<lock, helper, hw, op, arg, nircmd, res, log, calls, hist, fn, sched>>

\* Activate (method 3) inside the middle try; a failure runs the middle and
\* the outer finally.
Activate(t) ==
    /\ pc[t] = "activate"
    /\ \E ok \in BOOLEAN :
        LET c == [com[t] EXCEPT !.tried = @ \cup {"activate"}] IN
        IF ok
        THEN /\ com' = [com EXCEPT ![t] = [c EXCEPT !.acq = @ \cup {"endpoint"}]]
             /\ pc' = [pc EXCEPT ![t] = "callback"]
             /\ UNCHANGED <<exc, fault>>
        ELSE /\ com' = [com EXCEPT ![t] = FinallyEnumerator(FinallyDevice(c))]
             /\ \E e \in AfterUninit(c, "error: IAudioEndpointVolume") :
                    /\ exc' = [exc EXCEPT ![t] = e]
                    /\ fault' = [fault EXCEPT ![t] = e]
             /\ pc' = [pc EXCEPT ![t] = "native_ret"]
    /\ UNCHANGED <<lock, helper, hw, op, arg, nircmd, res, log, calls, hist, fn, sched>>

\* What the interface call of a callback does to the state the OS owns:
\* _setter of _set_volume_scalar (method 7), _setter of _set_mute (method
\* 14); _getter (method 9) changes nothing.
CallbackEffect(h, c) ==
    CASE c.cb = "set" /\ c.flow = EDATAFLOW_RENDER -> [h EXCEPT !.vol = c.val]
      [] c.cb = "mute" /\ c.flow = EDATAFLOW_RENDER -> [h EXCEPT !.mute = (c.val = 1)]
      [] c.cb = "mute" /\ c.flow = EDATAFLOW_CAPTURE -> [h EXCEPT !.mic = (c.val = 1)]
      [] OTHER -> h

\* return callback(endpoint) inside the inner try: the interface call on
\* the endpoint, whether it succeeds or fails.
Callback(t) ==
    /\ pc[t] = "callback"
    /\ log' = [log EXCEPT ![t] = Append(@, Entry("native", com[t].cb, t))]
    /\ \E ok \in BOOLEAN :
        LET c == [com[t] EXCEPT !.tried = @ \cup {"call"}] IN
        IF ok
        THEN /\ hw' = CallbackEffect(hw, c)
             /\ com' = [com EXCEPT ![t] =
                          IF c.cb = "get" THEN [c EXCEPT !.ret = hw.vol] ELSE c]
             /\ UNCHANGED <<exc, fault>>
        ELSE /\ com' = [com EXCEPT ![t] = c]
             /\ exc' = [exc EXCEPT ![t] = "error: llamada de interfaz"]
             /\ fault' = [fault EXCEPT ![t] = "error: llamada de interfaz"]
             /\ UNCHANGED hw
    /\ pc' = [pc EXCEPT ![t] = "finally"]
    /\ UNCHANGED <<lock, helper, op, arg, nircmd, res, calls, hist, fn, sched>>

\* The inner, middle and outer finally after the callback returned or raised.
\* A Release() that raises is swallowed by _release (`except Exception:
\* pass`): whether the three calls returned or raised, the teardown goes on
\* and nothing of the failure is left.  The CoUninitialize that ends the
\* outer finally is not wrapped: an OSError of it takes the place of the
\* callback's result or exception.
Finally(t) ==
    /\ pc[t] = "finally"
    /\ \E released \in BOOLEAN :
        com' = [com EXCEPT ![t] = FinallyEnumerator(FinallyDevice(FinallyEndpoint(@)))]
    /\ \E e \in AfterUninit(com[t], exc[t]) :
        /\ exc' = [exc EXCEPT ![t] = e]
        /\ fault' = [fault EXCEPT ![t] = IF e = exc[t] THEN @ ELSE e]
    /\ pc' = [pc EXCEPT ![t] = "native_ret"]
    /\ UNCHANGED <<lock, helper, hw, op, arg, nircmd, res, log, calls,
                   hist, fn, sched>>

\* Variant: the delta is added whatever its sign was meant to be.
NuevoAlwaysUp(o, current, ajuste) == ClampScalar(current + ajuste * NircmdFullScale)

\* _adjust_volume: nuevo = max(0.0, min(1.0, current + delta / 100.0))
Nuevo(o, current, ajuste) ==
    ClampScalar(current + (IF o = "volume_down" THEN -ajuste ELSE ajuste) * NircmdFullScale)

\* Variant: the helper branch of volume_up / volume_down does not return and
\* falls through to _adjust_volume.
WritesAfterReadAnyPath(o, found) == o \in AdjustOps

\* The read of the volume is followed by a write only in _adjust_volume,
\* which the helper branch never reaches (it returns its read-back).
WritesAfterRead(o, found) == o \in AdjustOps /\ Backend(o, found) = "native"

\* What the operation has of a call of _with_audio_endpoint once the call
\* is over: the value the callback returned.  The locals of the call are
\* gone; the device it had resolved stays on record.
Returned(c) == [NoCom EXCEPT !.ret = c.ret, !.dev = c.dev]

\* _with_audio_endpoint has returned or raised into the operation: an
\* exception leaves the operation; _adjust_volume goes on from its read to
\* its write; every other caller returns its result.
NativeRet(t) ==
    /\ pc[t] = "native_ret"
    /\ exc' = [exc EXCEPT ![t] = "none"]
    /\ IF exc[t] # "none"
       THEN Finish(t, Raise(exc[t])) /\ com' = [com EXCEPT ![t] = Returned(@)]
       ELSE IF com[t].cb = "get" /\ WritesAfterRead(op[t], nircmd[t])
       THEN /\ com' = [com EXCEPT ![t] =
                        NewCom("set", EDATAFLOW_RENDER, Nuevo(op[t], com[t].ret, arg[t]))]
            /\ pc' = [pc EXCEPT ![t] = "coinit"]
            /\ UNCHANGED res
       ELSE /\ com' = [com EXCEPT ![t] = Returned(@)]
            /\ Finish(t, CASE com[t].cb = "get" -> Val(ScalarToPercent(com[t].ret))
                           [] com[t].cb = "set" /\ op[t] \in AdjustOps ->
                                Val(ScalarToPercent(com[t].val))
                           [] com[t].cb = "set" -> Val(arg[t])
                           [] OTHER -> Unit)
    /\ UNCHANGED <<lock, helper, hw, op, arg, nircmd, log, calls, fault, hist, fn, sched>>

(***************************************************************************)
(* The program: threads calling the public operations concurrently.        *)
(***************************************************************************)
Next ==
    \/ \E t \in Threads : Call(t)
    \/ \E t \in Threads : Acquire(t)
    \/ \E t \in Threads : Probe(t)
    \/ \E t \in Threads : Probe2(t)
    \/ \E t \in Threads : Run(t)
    \/ \E t \in Threads : Wait(t)
    \/ \E t \in Threads : CoInit(t)
    \/ \E t \in Threads : CoCreate(t)
    \/ \E t \in Threads : GetDev(t)
    \/ \E t \in Threads : Activate(t)
    \/ \E t \in Threads : Callback(t)
    \/ \E t \in Threads : Finally(t)
    \/ \E t \in Threads : NativeRet(t)
    \/ \E t \in Threads : Release(t)
    \/ \E t \in Threads : Return(t)
    \/ ToggleHelper

Spec == Init /\ [][Next]_vars


(***************************************************************************)
(* One caller running public operations one after another, with a wider   *)
(* choice of inputs and of starting volumes: what a sequence of calls      *)
(* leaves behind.                                                          *)
(***************************************************************************)
SeqCaller == "t1"

\* a percent p as a volume scalar
Pct(p) == p * NircmdFullScale

SeqVolumes == {Pct(0), Pct(95)}
SeqInputs(o) ==
    IF o = "set_volume" THEN {Num(300), NumStr(955), Text, None, NaN, Inf}
    ELSE IF o = "set_brightness" THEN {Num(1500), Text}
    ELSE IF o \in AdjustOps
    THEN {None, NumStr(1000), Num(0), Num(4), Num(-50), Text, NaN}
    ELSE {None}

InitSeq ==
    /\ Idle
    /\ helper \in BOOLEAN
    /\ hw \in [vol : SeqVolumes, mute : {FALSE}, mic : {FALSE}, bright : {0},
             dev : {"speakers"}]
    /\ hist = NoHist
    /\ fn = <<>>
    /\ sched = NoSched

\* The caller calls a public operation; its input and the OS state at the
\* call are remembered.
CallSeq ==
    /\ calls < SeqCalls
    /\ \E o \in PublicOps : \E x \in SeqInputs(o) :
        /\ Invoke(SeqCaller, o, x)
        /\ hist' = <<Cur, [op |-> o, inp |-> x, h0 |-> hw, ok |-> FALSE]>>

\* The caller has the result; the operation becomes the one before the next.
ReturnSeq ==
    /\ Leave(SeqCaller)
    /\ hist' = [hist EXCEPT ![Len(hist)].ok = (res[SeqCaller].kind \in {"ok", "unit"})]

NextSeq ==
    \/ CallSeq
    \/ Acquire(SeqCaller)
    \/ Probe(SeqCaller)
    \/ Probe2(SeqCaller)
    \/ Run(SeqCaller)
    \/ Wait(SeqCaller)
    \/ CoInit(SeqCaller)
    \/ CoCreate(SeqCaller)
    \/ GetDev(SeqCaller)
    \/ Activate(SeqCaller)
    \/ Callback(SeqCaller)
    \/ Finally(SeqCaller)
    \/ NativeRet(SeqCaller)
    \/ Release(SeqCaller)
    \/ ReturnSeq
    \/ ToggleHelper

SpecSeq == InitSeq /\ [][NextSeq]_vars

(***************************************************************************)
(* One caller in a changing environment: between two operations the helper *)
(* is installed or removed and another audio device becomes the default    *)
(* one.  A finished call remembers what its lookup found and the device    *)
(* its native calls resolved.                                              *)
(***************************************************************************)
EnvOps == {"set_volume", "volume_up", "mic_mute"}
EnvInputs(o) == IF o = "set_volume" THEN {Num(300)} ELSE {None}

InitEnv ==
    /\ Idle
    /\ helper \in BOOLEAN
    /\ hw \in [vol : {Pct(0)}, mute : {FALSE}, mic : {FALSE}, bright : {0},
                dev : Devices]
    /\ hist = NoHist
    /\ fn = <<>>
    /\ sched = NoSched

CallEnv ==
    /\ calls < SeqCalls
    /\ \E o \in EnvOps : \E x \in EnvInputs(o) :
        /\ Invoke(SeqCaller, o, x)
        /\ hist' = <<Cur, [op |-> o, inp |-> x, h0 |-> hw, ok |-> FALSE,
                           found |-> FALSE, dev |-> "none"]>>

ReturnEnv ==
    /\ Leave(SeqCaller)
    /\ hist' = [hist EXCEPT ![Len(hist)].ok = (res[SeqCaller].kind \in {"ok", "unit"}),
                            ![Len(hist)].found = nircmd[SeqCaller],
                            ![Len(hist)].dev = com[SeqCaller].dev]

\* nircmd.exe is installed or removed between two operations.
HelperChanges == pc[SeqCaller] = "idle" /\ ToggleHelper

\* Another device becomes the default one between two operations.
DeviceChanges ==
    /\ pc[SeqCaller] = "idle"
    /\ \E d \in Devices \ {hw.dev} : hw' = [hw EXCEPT !.dev = d]
    /\ UNCHANGED <<lock, helper, pc, op, arg, nircmd, com, exc, res, log, calls,
                   fault, hist, fn, sched>>

NextEnv ==
    \/ CallEnv
    \/ Acquire(SeqCaller)
    \/ Probe(SeqCaller)
    \/ Probe2(SeqCaller)
    \/ Run(SeqCaller)
    \/ Wait(SeqCaller)
    \/ CoInit(SeqCaller)
    \/ CoCreate(SeqCaller)
    \/ GetDev(SeqCaller)
    \/ Activate(SeqCaller)
    \/ Callback(SeqCaller)
    \/ Finally(SeqCaller)
    \/ NativeRet(SeqCaller)
    \/ Release(SeqCaller)
    \/ ReturnEnv
    \/ HelperChanges
    \/ DeviceChanges

SpecEnv == InitEnv /\ [][NextEnv]_vars

(***************************************************************************)
(* Two threads on the native path: no helper is installed, and each thread *)
(* calls one operation that changes the output volume.  The volume before  *)
(* the two calls is remembered.                                            *)
(***************************************************************************)
PairOps == {"volume_up", "volume_down", "set_volume"}
PairInputs(o) == IF o = "set_volume" THEN {Num(500)} ELSE {None, Num(100)}

InitPair ==
    /\ Idle
    /\ helper = FALSE
    /\ hw \in [vol : SeqVolumes, mute : {FALSE}, mic : {FALSE}, bright : {0},
                dev : {"speakers"}]
    /\ hist = <<[NoCall EXCEPT !.h0 = hw]>>
    /\ fn = <<>>
    /\ sched = NoSched

CallPair(t) ==
    /\ calls < MaxCalls
    /\ \E o \in PairOps : \E x \in PairInputs(o) : Invoke(t, o, x)
    /\ UNCHANGED hist

NextPair ==
    \/ \E t \in Threads : CallPair(t)
    \/ \E t \in Threads : Acquire(t)
    \/ \E t \in Threads : Probe(t)
    \/ \E t \in Threads : CoInit(t)
    \/ \E t \in Threads : CoCreate(t)
    \/ \E t \in Threads : GetDev(t)
    \/ \E t \in Threads : Activate(t)
    \/ \E t \in Threads : Callback(t)
    \/ \E t \in Threads : Finally(t)
    \/ \E t \in Threads : NativeRet(t)
    \/ \E t \in Threads : Release(t)

SpecPair == InitPair /\ [][NextPair]_vars


(***************************************************************************)
(* The normalizers on their own: one application of _normalize_percent     *)
(* (which normalize_percent returns unchanged) or of _normalize_delta to   *)
(* an input drawn from the numbers of -FnRange .. FnRange tenths, given as *)
(* numbers or as numeric strings, and from the inputs that are no finite   *)
(* number.                                                                 *)
(***************************************************************************)
FnInputs ==
    {Num(n) : n \in -FnRange..FnRange} \cup {NumStr(n) : n \in -FnRange..FnRange}
        \cup {Text, None, NaN, Inf, NegInf}

InitFn ==
    /\ Idle
    /\ helper = FALSE
    /\ hw = NoHw
    /\ sched = NoSched
    /\ hist = NoHist
    /\ fn \in {<<[NoFn EXCEPT !.f = "normalize_percent", !.x = x]>> : x \in FnInputs}
            \cup {<<[NoFn EXCEPT !.f = "normalize_delta", !.x = x, !.d = d]>> :
                        x \in FnInputs, d \in {DefaultDelta, 0, -100, 100, 500}}

\* normalize_percent(value): return _normalize_percent(value)
ApplyPercent ==
    /\ App.f = "normalize_percent" /\ App.out = NoRes
    /\ fn' = <<[App EXCEPT !.out = NormalizePercent(App.x)]>>
    /\ UNCHANGED <<lock, helper, hw, pc, op, arg, nircmd, com, exc, res, log,
                   calls, fault, hist, sched>>

\* _normalize_delta(delta, default)
ApplyDelta ==
    /\ App.f = "normalize_delta" /\ App.out = NoRes
    /\ fn' = <<[App EXCEPT !.out = NormalizeDelta(App.x, App.d)]>>
    /\ UNCHANGED <<lock, helper, hw, pc, op, arg, nircmd, com, exc, res, log,
                   calls, fault, hist, sched>>

NextFn ==
    \/ ApplyPercent
    \/ ApplyDelta

SpecFn == InitFn /\ [][NextFn]_vars

(***************************************************************************)
(* scheduler.parse_duration as a pure function.  A text is a sequence of   *)
(* characters; the function is applied to every text of at most MaxText    *)
(* characters over a small alphabet, to the texts of the test suite, and   *)
(* to None.  The texts are ASCII, which NFD normalization and the removal  *)
(* of combining marks (lines 103-104) leave as they are.                   *)
(***************************************************************************)
Str(s) == [k |-> "str", s |-> s]

DigitChars == <<"0", "1", "2", "3", "4", "5", "6", "7", "8", "9">>
UpperChars == <<"A", "B", "C", "D", "E", "F", "G", "H", "I", "J", "K", "L", "M",
                "N", "O", "P", "Q", "R", "S", "T", "U", "V", "W", "X", "Y", "Z">>
LowerChars == <<"a", "b", "c", "d", "e", "f", "g", "h", "i", "j", "k", "l", "m",
                "n", "o", "p", "q", "r", "s", "t", "u", "v", "w", "x", "y", "z">>
Range(f) == {f[i] : i \in DOMAIN f}

\* \d, \s and \w of the regular expressions, on ASCII
IsDigit(c) == c \in Range(DigitChars)
\* str.isspace() on ASCII, which is what str.strip() removes: space, \t, \n,
\* \r, \f, and the control characters 0x0B and 0x1C to 0x1F, the last five
\* written as the characters themselves
IsSpace(c) == c \in {" ", "\t", "\n", "\r", "\f", "", "", "", "", ""}
IsWordChar(c) == c \in Range(DigitChars) \cup Range(UpperChars) \cup Range(LowerChars) \cup {"_"}

DigitValue(c) == (CHOOSE i \in DOMAIN DigitChars : DigitChars[i] = c) - 1

\* str.strip(): the text without its leading and trailing whitespace
Strip(s) ==
    LET inked == {i \in 1..Len(s) : ~IsSpace(s[i])} IN
    IF inked = {} THEN <<>>
    ELSE SubSeq(s, CHOOSE i \in inked : \A j \in inked : i <= j,
                   CHOOSE i \in inked : \A j \in inked : j <= i)

\* str.lower()
Lower(s) ==
    [i \in 1..Len(s) |->
        IF s[i] \in Range(UpperChars)
        THEN LowerChars[CHOOSE j \in DOMAIN UpperChars : UpperChars[j] = s[i]]
        ELSE s[i]]

\* limpio.replace(",", ".")
ReplaceComma(s) == [i \in 1..Len(s) |-> IF s[i] = "," THEN "." ELSE s[i]]

\* the end of the longest run of digits of s that starts at i
RunEnd(s, i) ==
    CHOOSE j \in i..Len(s) :
        /\ \A k \in i..j : IsDigit(s[k])
        /\ j = Len(s) \/ ~IsDigit(s[j + 1])

\* re.search(r"(\d+(?:\.\d+)?)", limpio): the leftmost run of digits, with
\* the "." and the digits after it if there are any; no sign and no leading
\* "." belong to it.  ent and frac are <<>> when nothing matches.
Match(s) ==
    LET starts == {i \in 1..Len(s) : IsDigit(s[i])} IN
    IF starts = {} THEN [found |-> FALSE, ent |-> <<>>, frac |-> <<>>]
    ELSE LET i == CHOOSE a \in starts : \A b \in starts : a <= b
             j == RunEnd(s, i)
             hasFrac == j + 2 <= Len(s) /\ s[j + 1] = "." /\ IsDigit(s[j + 2])
         IN [found |-> TRUE, ent |-> SubSeq(s, i, j),
             frac |-> IF hasFrac THEN SubSeq(s, j + 2, RunEnd(s, j + 2)) ELSE <<>>]

RECURSIVE DigitsValue(_)
DigitsValue(d) ==
    IF d = <<>> THEN 0
    ELSE 10 * DigitsValue(SubSeq(d, 1, Len(d) - 1)) + DigitValue(d[Len(d)])

RECURSIVE Pow10(_)
Pow10(n) == IF n = 0 THEN 1 ELSE 10 * Pow10(n - 1)

\* float(match.group(1)) as the fraction num / den
Numero(m) == [num |-> DigitsValue(m.ent \o m.frac), den |-> Pow10(Len(m.frac))]

\* re.search(rf"\b{nombre}\b", limpio): nombre occurs in s with no word
\* character next to it on either side
HasWord(s, nombre) ==
    \E i \in 1..(Len(s) - Len(nombre) + 1) :
        /\ SubSeq(s, i, i + Len(nombre) - 1) = nombre
        /\ i = 1 \/ ~IsWordChar(s[i - 1])
        /\ i + Len(nombre) - 1 = Len(s) \/ ~IsWordChar(s[i + Len(nombre)])

SecondsFactor == 1
MinutesFactor == 60
HoursFactor == 3600

\* the dict unidades, in its order
Unidades ==
    << [nombre |-> <<"s", "e", "g", "u", "n", "d", "o">>, factor |-> SecondsFactor],
       [nombre |-> <<"s", "e", "g", "u", "n", "d", "o", "s">>, factor |-> SecondsFactor],
       [nombre |-> <<"s", "e", "g">>, factor |-> SecondsFactor],
       [nombre |-> <<"s">>, factor |-> SecondsFactor],
       [nombre |-> <<"m", "i", "n", "u", "t", "o">>, factor |-> MinutesFactor],
       [nombre |-> <<"m", "i", "n", "u", "t", "o", "s">>, factor |-> MinutesFactor],
       [nombre |-> <<"m", "i", "n">>, factor |-> MinutesFactor],
       [nombre |-> <<"m">>, factor |-> MinutesFactor],
       [nombre |-> <<"h", "o", "r", "a">>, factor |-> HoursFactor],
       [nombre |-> <<"h", "o", "r", "a", "s">>, factor |-> HoursFactor],
       [nombre |-> <<"h">>, factor |-> HoursFactor] >>

\* Variant: a number without a unit word counts as seconds.
FactorDefaultSeconds(s) ==
    LET hits == {i \in DOMAIN Unidades : HasWord(s, Unidades[i].nombre)} IN
    IF hits = {} THEN SecondsFactor
    ELSE Unidades[CHOOSE i \in hits : \A j \in hits : i <= j].factor

\* unidad = "minutos"; the first name of the dict, in the dict's order, that
\* occurs in the text as a word replaces it; factor = unidades[unidad]
Factor(s) ==
    LET hits == {i \in DOMAIN Unidades : HasWord(s, Unidades[i].nombre)} IN
    IF hits = {} THEN MinutesFactor
    ELSE Unidades[CHOOSE i \in hits : \A j \in hits : i <= j].factor

\* The floats of the computation are IEEE doubles: 53 binary digits and a
\* scale.  [m |-> digits, f |-> n] stands for the number whose binary digits
\* are m, most significant first, the last n of them after the point.

RECURSIVE Pow2(_)
Pow2(n) == IF n = 0 THEN 1 ELSE 2 * Pow2(n - 1)

\* the number of binary digits of the natural n
RECURSIVE BitLength(_)
BitLength(n) == IF n = 0 THEN 0 ELSE 1 + BitLength(n \div 2)

\* the w binary digits of n < 2^w, leading zeros included
Pad(n, w) == [i \in 1..w |-> (n \div Pow2(w - i)) % 2]

\* the natural whose binary digits are b
RECURSIVE BitsValue(_)
BitsValue(b) ==
    IF Len(b) = 0 THEN 0
    ELSE IF Len(b) = 1 THEN b[1]
    ELSE LET cut == Len(b) \div 2 IN
         BitsValue(SubSeq(b, 1, cut)) * Pow2(Len(b) - cut)
            + BitsValue(SubSeq(b, cut + 1, Len(b)))

MantissaBits == 53

\* The double with the 53 digits b and the scale f (the value of b divided
\* by 2^f), b followed by digits that are at least half a unit of its last
\* digit (half), and more (more): rounding to nearest, ties to even.  Digits
\* that are all ones round up to a one and zeros, one digit longer, of which
\* the first 53 are kept.
Rounded(b, f, half, more) ==
    LET zeros == {i \in 1..Len(b) : b[i] = 0}
        last == CHOOSE i \in zeros : \A j \in zeros : j <= i
    IN IF ~(half /\ (more \/ b[Len(b)] = 1)) THEN [m |-> b, f |-> f]
       ELSE IF zeros = {}
       THEN [m |-> <<1>> \o [i \in 1..Len(b) - 1 |-> 0], f |-> f - 1]
       ELSE [m |-> [i \in 1..Len(b) |->
                        IF i < last THEN b[i] ELSE IF i = last THEN 1 ELSE 0],
             f |-> f]

\* the next n binary digits of r / den (r < den), and what remains
RECURSIVE Digits(_, _, _)
Digits(r, den, n) ==
    IF n = 0 THEN [d |-> <<>>, r |-> r]
    ELSE IF n = 1
    THEN IF 2 * r >= den THEN [d |-> <<1>>, r |-> 2 * r - den]
         ELSE [d |-> <<0>>, r |-> 2 * r]
    ELSE LET first == Digits(r, den, n \div 2)
             then == Digits(first.r, den, n - n \div 2)
         IN [d |-> first.d \o then.d, r |-> then.r]

\* the least k with num * 2^k >= den
RECURSIVE Shift(_, _)
Shift(num, den) == IF num >= den THEN 0 ELSE 1 + Shift(2 * num, den)

\* float("num/den"): the double nearest to the decimal number, num > 0:
\* its first 53 binary digits from the leading one on, rounded by what
\* follows them
Double(num, den) ==
    LET k == Shift(num, den)
        whole == (num * Pow2(k)) \div den
        top == Pad(whole, BitLength(whole))
        n == MantissaBits - Len(top)
        rest == Digits((num * Pow2(k)) % den, den, n)
    IN Rounded(top \o rest.d, k + n, 2 * rest.r >= den, 2 * rest.r > den)

\* The binary digits of b * k, for the 53 digits b and k < 2^12: b is
\* multiplied in pieces, from the right, of so many digits that a piece
\* times k stays below 2^31; each piece is multiplied and what the piece
\* before carried is added.
Times(b, k) ==
    LET piece == 18
        low == BitsValue(SubSeq(b, Len(b) - piece + 1, Len(b))) * k
        mid == BitsValue(SubSeq(b, Len(b) - 2 * piece + 1, Len(b) - piece)) * k
                   + low \div Pow2(piece)
        high == BitsValue(SubSeq(b, 1, Len(b) - 2 * piece)) * k
                   + mid \div Pow2(piece)
    IN Pad(high, BitLength(high)) \o Pad(mid % Pow2(piece), piece)
                                  \o Pad(low % Pow2(piece), piece)

\* numero * factor: the exact product, rounded to a double
MulDouble(x, k) ==
    LET b == Times(x.m, k)
        n == Len(b) - MantissaBits
        cut == SubSeq(b, MantissaBits + 1, Len(b))
    IN IF n = 0 THEN x
       ELSE Rounded(SubSeq(b, 1, MantissaBits), x.f - n,
                    cut[1] = 1, \E i \in 2..n : cut[i] = 1)

\* int(round(x)) for a double x below 2^31: the nearest integer, the even
\* one of two that are equally near
RoundDouble(x) ==
    LET whole == IF x.f >= MantissaBits THEN <<>>
                 ELSE SubSeq(x.m, 1, MantissaBits - x.f)
        part == IF x.f > MantissaBits THEN <<0>> \o x.m
                ELSE SubSeq(x.m, Len(whole) + 1, MantissaBits)
        q == BitsValue(whole)
    IN IF part[1] = 1 /\ ((\E i \in 2..Len(part) : part[i] = 1) \/ q % 2 = 1)
       THEN q + 1 ELSE q

\* segundos = int(round(numero * factor)): an integer below 2^53, written
\* with or without decimals ("5", "5.0"), is a double, and so is its product
\* with the factor; any other number is the double nearest to it, and so is
\* the product.
ParseDuration(texto) ==
    IF texto = None \/ texto.s = <<>> THEN Raise("ValueError")
    ELSE LET stripped == Lower(Strip(texto.s)) IN
         IF stripped = <<>> THEN Raise("ValueError")
         ELSE LET limpio == ReplaceComma(stripped)
                  m == Match(limpio)
                  numero == Numero(m)
              IN IF ~m.found THEN Raise("ValueError")
                 ELSE IF numero.num <= 0 THEN Raise("ValueError")
                 ELSE LET factor == Factor(limpio)
                          segundos ==
                              IF numero.num % numero.den = 0
                              THEN (numero.num \div numero.den) * factor
                              ELSE RoundDouble(MulDouble(
                                       Double(numero.num, numero.den), factor))
                      IN Val(Max(segundos, 1))

MaxText == 5

\* the characters of the texts that are enumerated
DurChars == {"0", "1", "5", ".", " ", "-", "s", "m", "h"}

\* the texts of the test suite, and a few more with a decimal comma, an
\* upper-case unit, words around the number, a fraction that rounds up and
\* each kind of whitespace that strip() removes, and decimal numbers whose
\* product with the factor lies halfway between two integers
DurExamples ==
    { <<"1", "0", " ", "m", "i", "n", "u", "t", "o", "s">>,
      <<"4", "5">>,
      <<"1", "5", " ", "s", "e", "g", "u", "n", "d", "o", "s">>,
      <<"2", " ", "h", "o", "r", "a", "s">>,
      <<"1", ".", "5", " ", "h", "o", "r", "a", "s">>,
      <<"c", "u", "a", "l", "q", "u", "i", "e", "r", " ", "m", "o", "m", "e", "n", "t", "o">>,
      <<"1", ",", "5", " ", "h", "o", "r", "a", "s">>,
      <<"2", " ", "H", "o", "r", "a", "s">>,
      <<"e", "n", " ", "2", "0", " ", "m", "i", "n">>,
      <<"2", ".", "6", " ", "s", "e", "g">>,
      <<"-", "5", " ", "m", "i", "n", "u", "t", "o", "s">>,
      <<"\t", " ">>,
      <<"\r", "5", " ", "s", "\r">>,
      <<"\r", "\f">>,
      <<"", "", "4", "5", "", "", "">>,
      <<"1", ".", "0", "2", "5", " ", "m">>,
      <<"2", ".", "0", "7", "5", " ", "m">>,
      <<"8", ".", "3", "2", "5", " ", "m", "i", "n", "u", "t", "o", "s">>,
      <<"0", ".", "5", " ", "s">>,
      <<"2", ".", "5", " ", "s">> }

DurInputs ==
    {Str(s) : s \in UNION {[1..n -> DurChars] : n \in 0..MaxText}}
        \cup {Str(s) : s \in DurExamples} \cup {None}

InitDur ==
    /\ Idle
    /\ helper = FALSE
    /\ hw = NoHw
    /\ sched = NoSched
    /\ hist = NoHist
    /\ fn \in {<<[NoFn EXCEPT !.f = "parse_duration", !.x = x]>> : x \in DurInputs}

\* parse_duration(texto)
ApplyDuration ==
    /\ App.f = "parse_duration" /\ App.out = NoRes
    /\ fn' = <<[App EXCEPT !.out = ParseDuration(App.x)]>>
    /\ UNCHANGED <<lock, helper, hw, pc, op, arg, nircmd, com, exc, res, log,
                   calls, fault, hist, sched>>

NextDur == ApplyDuration

SpecDur == InitDur /\ [][NextDur]_vars

(***************************************************************************)
(* scheduler.py: reminders run by threading.Timer threads, and shutdowns    *)
(* and restarts handed to the system's `shutdown` command.  sched holds    *)
(* the module's globals (_tasks, _timers, _counters), the commands started *)
(* so far (cmds), the position and the locals of each calling thread (th), *)
(* and the thread of each timer (tm).  A call is known by its number k,    *)
(* the value of calls when it was made; a task and a timer are known by    *)
(* the call that made them (by), and an id <<prefix, n>> stands for the    *)
(* string prefix + str(n), <<>> for the empty string.  The statements      *)
(* inside one `with _tasks_lock:` are one step: the lock orders these      *)
(* blocks and none of them waits.  _persist_tasks writes a file and        *)
(* swallows its errors; it changes nothing here.                           *)
(***************************************************************************)
SchedCalls == 2

SchedOps == {"program_reminder", "program_shutdown", "cancel_shutdown",
             "cancel_task", "clear_all"}
Kinds == {"recordatorio", "shutdown", "restart"}
ShutdownKinds == {"shutdown", "restart"}

\* _generate_id: f"{prefix}{_counters[kind]}", with the prefix of the kind
TaskId(kind, n) ==
    LET prefix == CASE kind = "recordatorio" -> "r"
                    [] kind = "shutdown" -> "a"
                    [] kind = "restart" -> "re"
                    [] OTHER -> "t"
    IN <<prefix, n>>
NoId == <<>>

\* delay_s of program_reminder (zero, positive), delay_s (negative, zero,
\* positive) and kind (one of the two, or another) of program_shutdown, and
\* task_id of cancel_task (an id of each kind, or the empty one)
SchedInputs(o) ==
    CASE o = "program_reminder" ->
            {[delay |-> d, kind |-> "recordatorio", id |-> NoId] : d \in {0, 5}}
      [] o = "program_shutdown" ->
            {[delay |-> d, kind |-> kind, id |-> NoId] :
                d \in {-1, 0, 30}, kind \in ShutdownKinds \cup {"otro"}}
      [] o = "cancel_task" ->
            {[delay |-> 0, kind |-> "none", id |-> i] :
                i \in {TaskId(kind, n) : kind \in Kinds, n \in 1..SchedCalls}
                        \cup {NoId}}
      [] OTHER -> {[delay |-> 0, kind |-> "none", id |-> NoId]}

NoLocals == [pc |-> "idle", op |-> "none", k |-> 0, arg |-> 0, kind |-> "none",
             tmp |-> 0, id |-> NoId, before |-> {}, res |-> "none"]
NoTimer == [st |-> "none", id |-> NoId]

InitSched ==
    /\ Idle
    /\ helper = FALSE
    /\ hw = NoHw
    /\ hist = NoHist
    /\ fn = <<>>
    /\ sched = [tasks |-> {}, timers |-> {},
                counters |-> [kind \in Kinds |-> 0],
                cmds |-> <<>>,
                th |-> [t \in Threads |-> NoLocals],
                tm |-> [k \in 1..SchedCalls |-> NoTimer],
                made |-> {}, over |-> {}, returned |-> {}, doomed |-> {},
                trig |-> {}, late |-> {}]

SysVars == <<lock, helper, hw, pc, op, arg, nircmd, com, exc, res, log, fault,
             hist, fn>>

\* list_tasks(): the ids in _tasks
ListTasks == {e.id : e \in sched.tasks}

\* timer.cancel() on the timers of the calls ks: a timer still waiting for
\* its interval never runs its function; one that has begun to run it is
\* not stopped
Cancel(tm, ks) ==
    [k \in DOMAIN tm |->
        IF k \in ks /\ tm[k].st = "waiting" THEN [tm[k] EXCEPT !.st = "cancelled"]
        ELSE tm[k]]

\* A thread calls program_reminder(texto, delay_s, on_trigger),
\* program_shutdown(delay_s, kind), cancel_shutdown(), cancel_task(task_id)
\* or clear_all().  The call begins with the tests on its arguments, which
\* raise ValueError, and goes on to the first statement after them.
SchedCall(t) ==
    /\ sched.th[t].pc = "idle"
    /\ calls < SchedCalls
    /\ calls' = calls + 1
    /\ \E o \in SchedOps : \E x \in SchedInputs(o) :
        LET first ==
                CASE o = "program_reminder" ->
                        IF x.delay <= 0 THEN "ValueError" ELSE "gen_load"
                  [] o = "program_shutdown" ->
                        IF x.delay < 0 \/ x.kind \notin ShutdownKinds
                        THEN "ValueError" ELSE "run"
                  [] o = "cancel_shutdown" -> "run"
                  [] o = "cancel_task" ->
                        IF x.id = NoId THEN "ValueError" ELSE "pop"
                  [] OTHER -> "clear"
        IN sched' = [sched EXCEPT !.th[t] =
            [NoLocals EXCEPT
                !.op = o, !.k = calls + 1, !.arg = x.delay, !.kind = x.kind,
                !.id = x.id,
                !.before = sched.returned,
                !.pc = IF first = "ValueError" THEN "done" ELSE first,
                !.res = IF first = "ValueError" THEN "ValueError" ELSE "none"]]
    /\ UNCHANGED SysVars

\* subprocess.run(comando, capture_output=True, text=True, check=False)
\* starts the process, or raises because there is no such program or it
\* cannot be executed.  No handler of the three callers catches that.  The
\* command line is that of program_shutdown, the number standing for
\* str(delay_s), or that of cancel_shutdown (which cancel_task calls for a
\* shutdown or restart task).
RunShutdown(t) ==
    /\ sched.th[t].pc = "run"
    /\ \E start \in ProcessStarts :
        IF start = "started"
        THEN LET l == sched.th[t]
                 flag == IF l.kind = "shutdown" THEN "-s" ELSE "-r"
                 comando == IF l.op = "program_shutdown"
                            THEN <<"shutdown", flag, "-t", l.arg>>
                            ELSE <<"shutdown", "-a">>
             IN sched' = [sched EXCEPT !.th[t].pc = "wait",
                                       !.cmds = Append(@, comando)]
        ELSE sched' = [sched EXCEPT !.th[t].pc = "done", !.th[t].res = start]
    /\ UNCHANGED <<calls, SysVars>>

\* subprocess.run returns when the process has ended, if it ends, and
\* raises UnicodeDecodeError when what the process wrote is not text.  With
\* a non-zero exit code program_shutdown and cancel_shutdown raise
\* RuntimeError, which cancel_task logs and swallows; with exit code 0
\* program_shutdown goes on to take an id.
WaitShutdown(t) ==
    /\ sched.th[t].pc = "wait"
    /\ \E ended \in ProcessEnds :
        IF ended = "never"
        THEN sched' = [sched EXCEPT !.th[t].pc = "blocked"]
        ELSE \E decoded \in BOOLEAN :
            IF ~decoded
            THEN sched' = [sched EXCEPT !.th[t].pc = "done",
                                        !.th[t].res = "UnicodeDecodeError"]
            ELSE IF sched.th[t].op = "cancel_task"
            THEN sched' = [sched EXCEPT !.th[t].pc = "done", !.th[t].res = "task"]
            ELSE IF ended # "returncode 0"
            THEN sched' = [sched EXCEPT !.th[t].pc = "done",
                                        !.th[t].res = "RuntimeError"]
            ELSE IF sched.th[t].op = "cancel_shutdown"
            THEN sched' = [sched EXCEPT !.th[t].pc = "done", !.th[t].res = "None"]
            ELSE sched' = [sched EXCEPT !.th[t].pc = "gen_load"]
    /\ UNCHANGED <<calls, SysVars>>

\* _generate_id, `_counters[kind] += 1`: the value is read ...
GenLoad(t) ==
    /\ sched.th[t].pc = "gen_load"
    /\ sched' = [sched EXCEPT !.th[t].tmp = sched.counters[sched.th[t].kind],
                              !.th[t].pc = "gen_store"]
    /\ UNCHANGED <<calls, SysVars>>

\* ... and the value read, plus one, is stored
GenStore(t) ==
    /\ sched.th[t].pc = "gen_store"
    /\ sched' = [sched EXCEPT !.counters[sched.th[t].kind] = sched.th[t].tmp + 1,
                              !.th[t].pc = "gen_id"]
    /\ UNCHANGED <<calls, SysVars>>

\* return f"{prefix}{_counters[kind]}": the counter is read again for the
\* id; the task is created with it.  program_reminder goes on to start its
\* timer, program_shutdown to register the task.
GenId(t) ==
    /\ sched.th[t].pc = "gen_id"
    /\ LET l == sched.th[t]
           id == TaskId(l.kind, sched.counters[l.kind])
       IN sched' = [sched EXCEPT
                    !.th[t].id = id,
                    !.th[t].pc = IF l.op = "program_reminder" THEN "start"
                                 ELSE "register",
                    !.made = @ \cup {[id |-> id, tipo |-> l.kind, by |-> l.k]}]
    /\ UNCHANGED <<calls, SysVars>>

\* timer = threading.Timer(delay_s, _callback); timer.start()
StartTimer(t) ==
    /\ sched.th[t].pc = "start"
    /\ sched' = [sched EXCEPT
                    !.tm[sched.th[t].k] = [st |-> "waiting", id |-> sched.th[t].id],
                    !.th[t].pc = "register"]
    /\ UNCHANGED <<calls, SysVars>>

\* return _register_task(task, timer): _tasks[task.id] = task, whatever was
\* stored under that id before, and _timers[task.id] = timer; without a
\* timer (program_shutdown) a timer stored under that id is taken out of
\* the table, and not cancelled
Register(t) ==
    /\ sched.th[t].pc = "register"
    /\ LET l == sched.th[t]
           me == [id |-> l.id, tipo |-> l.kind, by |-> l.k]
       IN sched' = [sched EXCEPT
                    !.tasks = {e \in @ : e.id # me.id} \cup {me},
                    !.timers = {e \in @ : e.id # me.id}
                        \cup IF l.op = "program_reminder" THEN {me} ELSE {},
                    !.over = @ \cup {e \in sched.tasks : e.id = me.id /\ e.by # me.by},
                    !.th[t].pc = "done",
                    !.th[t].res = "task"]
    /\ UNCHANGED <<calls, SysVars>>

\* _pop_task(task_id) on the globals g: the task and the timer under the id
\* are removed and the timer is cancelled
PopTask(g, id) ==
    [g EXCEPT !.tasks = {e \in @ : e.id # id},
              !.timers = {e \in @ : e.id # id},
              !.tm = Cancel(@, {e.by : e \in {e \in g.timers : e.id = id}})]

\* cancel_task(task_id): _pop_task, KeyError when there is no such task;
\* the task of a shutdown or restart has cancel_shutdown() called for it
CancelTask(t) ==
    /\ sched.th[t].pc = "pop"
    /\ LET found == {e \in sched.tasks : e.id = sched.th[t].id} IN
        sched' = [PopTask(sched, sched.th[t].id) EXCEPT
                    !.th[t].pc = IF \E e \in found : e.tipo \in ShutdownKinds
                                 THEN "run" ELSE "done",
                    !.th[t].res = IF found = {} THEN "KeyError"
                                  ELSE IF \E e \in found : e.tipo \in ShutdownKinds
                                  THEN "none" ELSE "task"]
    /\ UNCHANGED <<calls, SysVars>>

\* clear_all(): every timer in _timers is cancelled, both tables are emptied
ClearAll(t) ==
    /\ sched.th[t].pc = "clear"
    /\ sched' = [sched EXCEPT
                    !.tm = Cancel(@, {e.by : e \in sched.timers}),
                    !.tasks = {},
                    !.timers = {},
                    !.th[t].pc = "done",
                    !.th[t].res = "None"]
    /\ UNCHANGED <<calls, SysVars>>

\* The call returns to its caller.  It is remembered which tasks were
\* scheduled (program_reminder or program_shutdown had returned) and, when
\* clear_all returns, which tasks had been scheduled before it was called.
SchedReturn(t) ==
    /\ sched.th[t].pc = "done"
    /\ sched' = [sched EXCEPT
                    !.th[t] = NoLocals,
                    !.returned = IF sched.th[t].res = "task"
                                    /\ sched.th[t].op \in {"program_reminder",
                                                           "program_shutdown"}
                                 THEN @ \cup {sched.th[t].k} ELSE @,
                    !.doomed = IF sched.th[t].op = "clear_all"
                               THEN @ \cup sched.th[t].before ELSE @]
    /\ UNCHANGED <<calls, SysVars>>

\* Timer.run: the interval has passed and the timer was not cancelled, so
\* _callback is called.
Fire(k) ==
    /\ sched.tm[k].st = "waiting"
    /\ sched' = [sched EXCEPT !.tm[k].st = "running"]
    /\ UNCHANGED <<calls, SysVars>>

\* _callback: _pop_task(task_id)
CallbackPop(k) ==
    /\ sched.tm[k].st = "running"
    /\ sched' = [PopTask(sched, sched.tm[k].id) EXCEPT !.tm[k].st = "popped"]
    /\ UNCHANGED <<calls, SysVars>>

\* _callback: on_trigger(task); an exception of on_trigger is logged and
\* swallowed.  It is remembered when this happens although a clear_all
\* called after the reminder was scheduled has returned.
CallbackTrigger(k) ==
    /\ sched.tm[k].st = "popped"
    /\ sched' = [sched EXCEPT
                    !.tm[k].st = "finished",
                    !.trig = @ \cup {k},
                    !.late = IF k \in sched.doomed THEN @ \cup {k} ELSE @]
    /\ UNCHANGED <<calls, SysVars>>

NextSched ==
    \/ \E t \in Threads : SchedCall(t)
    \/ \E t \in Threads : RunShutdown(t)
    \/ \E t \in Threads : WaitShutdown(t)
    \/ \E t \in Threads : GenLoad(t)
    \/ \E t \in Threads : GenStore(t)
    \/ \E t \in Threads : GenId(t)
    \/ \E t \in Threads : StartTimer(t)
    \/ \E t \in Threads : Register(t)
    \/ \E t \in Threads : CancelTask(t)
    \/ \E t \in Threads : ClearAll(t)
    \/ \E t \in Threads : SchedReturn(t)
    \/ \E k \in 1..SchedCalls : Fire(k)
    \/ \E k \in 1..SchedCalls : CallbackPop(k)
    \/ \E k \in 1..SchedCalls : CallbackTrigger(k)

SpecSched == InitSched /\ [][NextSched]_vars


(***************************************************************************)
(* Properties.                                                             *)
(***************************************************************************)
\* thread t is between acquiring and releasing the lock in a mutating operation
InCS(t) == op[t] \in MutatingOps /\ pc[t] \in CriticalPcs

\* the interactions of the current operation of t with backend b
Entries(t, b) == {i \in DOMAIN log[t] : log[t][i].b = b}
\* the native interface calls of the current operation of t that change state
NativeWrites(t) == {i \in Entries(t, "native") : log[t][i].c \in {"set", "mute"}}
NativeReads(t) == {i \in Entries(t, "native") : log[t][i].c = "get"}

OpSucceeded(t) == pc[t] = "done" /\ res[t].kind \in {"ok", "unit"}

\* C1: the critical sections of the mutating operations never overlap, and
\* every probe or use of a backend by a mutating operation happens while its
\* thread holds the lock.
C1_Serialized ==
    /\ \A t, u \in Threads : t # u => ~(InCS(t) /\ InCS(u))
    /\ \A t \in Threads : op[t] \in MutatingOps =>
        /\ pc[t] \in BackendPcs => lock = t
        /\ \A i \in DOMAIN log[t] : log[t][i].locked

\* one thread is inside its critical section, using a backend, while another
\* mutating operation waits for the lock
C1_Witness ==
    \E t, u \in Threads :
        /\ t # u
        /\ InCS(t) /\ pc[t] \in {"wait", "callback"}
        /\ op[u] \in MutatingOps /\ pc[u] = "acquire"

\* C2 as stated: the lock covers the read operations too, so get_volume
\* never reads the volume while another thread is inside set_volume,
\* volume_up or volume_down.
C2_Original ==
    \A t, u \in Threads :
        ~(/\ t # u
          /\ op[t] = "get_volume" /\ pc[t] = "callback"
          /\ op[u] \in {"set_volume", "volume_up", "volume_down"} /\ InCS(u))

\* C2 amended: the lock covers the body of every mutating operation and of
\* no read operation: get_volume and get_brightness never wait for it and
\* never hold it, whoever else holds it.
C2_ReadsUnlocked ==
    \A t \in Threads :
        /\ op[t] \in ReadOps =>
            /\ lock # t
            /\ pc[t] # "acquire"
            /\ \A i \in DOMAIN log[t] : ~log[t][i].locked
        /\ (op[t] \in MutatingOps /\ pc[t] \in BackendPcs) => lock = t

\* get_volume has read the volume while another thread holds the lock
\* inside set_volume
C2_Witness ==
    \E t, u \in Threads :
        /\ t # u
        /\ op[t] = "get_volume" /\ pc[t] = "finally" /\ "call" \in com[t].tried
        /\ op[u] = "set_volume" /\ InCS(u) /\ lock = u

\* C3: a mutating operation that has returned or raised no longer holds the
\* lock; the lock is held only by a thread inside a critical section.
C3_LockReleased ==
    \A t \in Threads :
        /\ pc[t] \in {"idle", "acquire", "done"} => lock # t
        /\ lock = t => pc[t] \in CriticalPcs

\* a mutating operation failed in its backend, and another thread holds the
\* lock in a mutating operation of its own
C3_Witness ==
    \E t, u \in Threads :
        /\ t # u
        /\ op[t] \in MutatingOps /\ pc[t] = "done"
        /\ res[t].kind \notin {"ok", "unit", "ValueError", "OverflowError"}
        /\ lock = u /\ InCS(u)

\* the call of _with_audio_endpoint of thread t has left the function
NativeEnded(t) == pc[t] = "native_ret"

\* C4: when one call of _with_audio_endpoint ends, every handle it acquired
\* has been released exactly once and no other handle has been released; at
\* no time is a handle released twice or released without being acquired.
C4_HandlesReleasedOnce ==
    \A t \in Threads : \A h \in Handles :
        /\ com[t].rel[h] <= 1
        /\ com[t].rel[h] = 1 => h \in com[t].acq
        /\ NativeEnded(t) => com[t].rel[h] = (IF h \in com[t].acq THEN 1 ELSE 0)

\* a call ended by a failure to activate the volume interface: enumerator
\* and device acquired and released, endpoint neither
C4_Witness ==
    \E t \in Threads :
        /\ pc[t] = "native_ret" /\ exc[t] = "error: IAudioEndpointVolume"
        /\ com[t].acq = {"enumerator", "device"}
        /\ com[t].rel["enumerator"] = 1 /\ com[t].rel["device"] = 1
        /\ com[t].rel["endpoint"] = 0

\* C5 as stated: a call whose CoInitializeEx reported "already initialized"
\* (S_FALSE) or the changed-mode status never calls CoUninitialize.
C5_Original ==
    \A t \in Threads :
        ("init" \in com[t].tried /\ com[t].hr \in {S_FALSE, RPC_E_CHANGED_MODE})
            => com[t].uninit = 0

\* C5 amended: a call calls CoUninitialize only if its own CoInitializeEx
\* returned a success status, S_OK or S_FALSE; after the changed-mode status
\* or any other failure status it never does.
C5_UninitOnlyAfterSuccess ==
    \A t \in Threads :
        com[t].uninit > 0 =>
            /\ "init" \in com[t].tried
            /\ com[t].hr \in {S_OK, S_FALSE}

\* a call whose CoInitializeEx reported S_FALSE ran to its end, callback
\* included, and called CoUninitialize once, while a call of another thread
\* whose CoInitializeEx reported the changed-mode status ended without it
C5_Witness ==
    \E t, u \in Threads :
        /\ t # u
        /\ pc[t] = "native_ret" /\ com[t].hr = S_FALSE
        /\ "call" \in com[t].tried /\ com[t].uninit = 1
        /\ pc[u] = "native_ret" /\ com[u].hr = RPC_E_CHANGED_MODE
        /\ "init" \in com[u].tried /\ com[u].uninit = 0

\* C6: a call whose CoInitializeEx succeeded has called CoUninitialize
\* exactly once when it ends, on every exit path.
C6_UninitExactlyOnce ==
    \A t \in Threads :
        (NativeEnded(t) /\ "init" \in com[t].tried /\ com[t].hr \in {S_OK, S_FALSE})
            => com[t].uninit = 1

\* C7: after any failure status of CoInitializeEx, the changed-mode status
\* included, the call attempts no enumeration, resolution or activation and
\* acquires no handle; the operation ends with that error, and the failed
\* operation leaves the lock free.
C7_FatalInitAborts ==
    \A t \in Threads :
        /\ ("init" \in com[t].tried /\ ~Succeeded(com[t].hr)) =>
            /\ com[t].tried = {"init"}
            /\ com[t].acq = {}
            /\ pc[t] = "native_ret"
            /\ exc[t] = "error: CoInitializeEx"
            /\ fault[t] = "error: CoInitializeEx"
        /\ fault[t] = "error: CoInitializeEx" =>
            /\ pc[t] \in {"native_ret", "release", "done"}
            /\ pc[t] \in {"release", "done"} => res[t].kind = "error: CoInitializeEx"
            /\ pc[t] = "done" => lock # t

\* an operation failed on CoInitializeEx and another operation, by another
\* thread, completed a native call
C7_Witness ==
    \E t, u \in Threads :
        /\ t # u
        /\ pc[t] = "done" /\ fault[t] = "error: CoInitializeEx"
        /\ res[t].kind = "error: CoInitializeEx"
        /\ OpSucceeded(u) /\ NativeWrites(u) # {}

\* The errors of the steps of the native path: CoInitializeEx,
\* CoCreateInstance, GetDefaultAudioEndpoint, Activate, the interface call.
NativeErrors == {"error: CoInitializeEx", "error: IMMDeviceEnumerator",
                 "error: dispositivo de audio", "error: IAudioEndpointVolume",
                 "error: llamada de interfaz"}

\* C8: a mutating volume operation whose _find_nircmd found no helper never
\* runs the helper and never fails for want of it; it fails only if a step
\* of the native path fails, and when it succeeds it has made its change
\* through the native interface.
C8_NativeFallback ==
    \A t \in Threads :
        (op[t] \in MutatingVolumeOps /\ pc[t] \notin {"idle", "acquire", "probe"}
                /\ ~nircmd[t] /\ res[t].kind \notin {"ValueError", "OverflowError"}) =>
            /\ Entries(t, "helper") = {}
            /\ pc[t] # "probe2"
            /\ res[t].kind \in {"none", "ok", "unit"} \cup NativeErrors
            /\ OpSucceeded(t) => Cardinality(NativeWrites(t)) = 1

\* C9: a mutating operation whose _find_nircmd found the helper makes no
\* change through the native interface or the PowerShell bridge, and when
\* it succeeds it has run the helper exactly once.
C9_HelperPreferred ==
    \A t \in Threads :
        (op[t] \in MutatingOps /\ nircmd[t]) =>
            /\ NativeWrites(t) = {}
            /\ Entries(t, "bridge") = {}
            /\ OpSucceeded(t) => Cardinality(Entries(t, "helper")) = 1

\* set_brightness succeeded through the helper
C9_Witness ==
    \E t \in Threads :
        /\ op[t] = "set_brightness" /\ OpSucceeded(t) /\ nircmd[t]
        /\ \E i \in Entries(t, "helper") : log[t][i].c = "setbrightness"
        /\ hw.bright = 100

\* C10: get_volume uses nothing but the native interface, and a successful
\* volume_up / volume_down has read the volume exactly once through the
\* native interface, on the helper path as on the native path; on the
\* helper path the value it returns is the value read.
C10_ReadsAreNative ==
    \A t \in Threads :
        /\ op[t] = "get_volume" =>
            /\ \A i \in DOMAIN log[t] : log[t][i].b = "native" /\ log[t][i].c = "get"
            /\ OpSucceeded(t) =>
                /\ Cardinality(NativeReads(t)) = 1
                /\ res[t].val = ScalarToPercent(com[t].ret)
        /\ (op[t] \in AdjustOps /\ OpSucceeded(t)) =>
            /\ Cardinality(NativeReads(t)) = 1
            /\ nircmd[t] => res[t].val = ScalarToPercent(com[t].ret)

\* volume_up succeeded on the helper path: the helper ran, then the native
\* read gave the result
C10_Witness ==
    \E t \in Threads :
        /\ op[t] = "volume_up" /\ OpSucceeded(t) /\ nircmd[t]
        /\ Cardinality(Entries(t, "helper")) = 1
        /\ Cardinality(NativeReads(t)) = 1
        /\ res[t].val = 100

BrightnessOps == {"set_brightness", "get_brightness"}

\* thread t starts powershell.exe in this step
BridgeInvoked(t) ==
    /\ Len(log'[t]) = Len(log[t]) + 1
    /\ log'[t][Len(log'[t])].b = "bridge"

\* what the operation of t knows of the helper when it starts a process:
\* the result of its own _find_nircmd, and for get_brightness, which never
\* looks, whether the helper is there to be found
Discoverable(t) == IF op[t] = "set_brightness" THEN nircmd[t] ELSE helper

\* C11 as stated: powershell.exe is started only by a brightness operation
\* and only when no helper is discoverable.
C11_Original ==
    [][\A t \in Threads :
        BridgeInvoked(t) => (op[t] \in BrightnessOps /\ ~Discoverable(t))]_vars

\* C11 amended: no volume, mute or microphone operation starts
\* powershell.exe; set_brightness starts it only when its _find_nircmd found
\* no helper; get_brightness starts it on every call, helper or no helper,
\* and uses nothing else.
C11_BridgeUse ==
    \A t \in Threads :
        /\ Entries(t, "bridge") # {} => op[t] \in BrightnessOps
        /\ (op[t] = "set_brightness" /\ Entries(t, "bridge") # {}) => ~nircmd[t]
        /\ (op[t] = "get_brightness" /\ pc[t] \in {"blocked", "done"}) =>
            /\ Len(log[t]) = 1
            /\ log[t][1].b = "bridge" /\ log[t][1].c = "CurrentBrightness"

\* set_brightness has set the brightness to 100, and get_brightness has
\* then read it through powershell.exe while the helper was there
C11_Witness ==
    /\ helper
    /\ op[SeqCaller] = "get_brightness" /\ res[SeqCaller] = Val(100)
    /\ pc[SeqCaller] = "done" /\ Entries(SeqCaller, "bridge") # {}
    /\ Prev.op = "set_brightness" /\ Prev.ok

\* the operations that take an argument
ArgOps == {"set_brightness", "set_volume"} \cup AdjustOps

\* C12: volume_up / volume_down fail with ValueError for every input whose
\* normalized delta is zero or negative, every operation fails with
\* ValueError for a non-numeric or NaN argument, and an operation that
\* failed validation went from its call straight to its end: no lock, no
\* probe, no backend, and the OS state as it was at the call.
C12_ValidationFirst ==
    LET t == SeqCaller
        d == NormalizeDelta(Cur.inp, DefaultDelta)
    IN  /\ (op[t] \in AdjustOps /\ d.kind = "ok" /\ d.val <= 0) =>
                (pc[t] = "done" /\ res[t].kind = "ValueError")
        /\ (op[t] \in ArgOps /\ Cur.inp.k \in {"text", "nan"}) =>
                (pc[t] = "done" /\ res[t].kind = "ValueError")
        /\ (op[t] \in {"set_brightness", "set_volume"} /\ Cur.inp.k = "none") =>
                (pc[t] = "done" /\ res[t].kind = "ValueError")
        /\ res[t].kind = "ValueError" =>
            /\ pc[t] = "done" /\ fault[t] = "validation"
            /\ lock = NoThread /\ log[t] = <<>> /\ com[t] = NoCom /\ ~nircmd[t]
            /\ hw = Cur.h0

\* volume_down(-5) failed validation after a set_volume that changed the
\* volume, which stays as set_volume left it
C12_Witness ==
    /\ op[SeqCaller] = "volume_down" /\ Cur.inp = Num(-50)
    /\ pc[SeqCaller] = "done" /\ res[SeqCaller].kind = "ValueError"
    /\ Prev.op = "set_volume" /\ Prev.ok /\ Prev.h0.vol # hw.vol
    /\ lock = NoThread /\ log[SeqCaller] = <<>>

\* an application of function f has produced its outcome
Applied(f) == App.f = f /\ App.out # NoRes

Abs(n) == IF n < 0 THEN -n ELSE n

\* v is the input x (finite, in tenths, or infinite) rounded to a nearest
\* integer and clamped to lo .. hi
NearestClamped(x, v, lo, hi) ==
    IF x.k = "inf" THEN v = (IF x.n > 0 THEN hi ELSE lo)
    ELSE \E r \in (x.n \div 10 - 1)..(x.n \div 10 + 1) :
            /\ Abs(10 * r - x.n) <= 5
            /\ v = Max(lo, Min(hi, r))

\* C13: for every numeric or numeric-string input, normalize_percent
\* returns the input rounded to the nearest integer and clamped to 0 .. 100.
C13_PercentRoundedClamped ==
    (Applied("normalize_percent") /\ App.x.k \in {"num", "numstr", "inf"}) =>
        /\ App.out.kind = "ok"
        /\ App.out.val \in 0..100
        /\ NearestClamped(App.x, App.out.val, 0, 100)

\* C14: normalize_percent raises ValueError, and returns nothing, for a
\* non-numeric string, for None and for NaN.
C14_NonNumericRejected ==
    (Applied("normalize_percent") /\ App.x.k \in {"text", "none", "nan"}) =>
        App.out.kind = "ValueError"

\* normalize_percent has been applied to a non-numeric string and raised
C14_Witness ==
    Applied("normalize_percent") /\ App.x = Text /\ App.out = Raise("ValueError")

\* C15: the result of normalize_delta lies in -100 .. 100 for every input
\* and every default; None returns the default, and a numeric input returns
\* the input rounded to the nearest integer and clamped to -100 .. 100.
C15_DeltaInRange ==
    Applied("normalize_delta") =>
        /\ App.out.kind = "ok" => App.out.val \in -100..100
        /\ App.x.k = "none" => App.out = Val(App.d)
        /\ App.x.k \in {"num", "numstr", "inf"} =>
            /\ App.out.kind = "ok"
            /\ NearestClamped(App.x, App.out.val, -100, 100)

\* what get_volume returns when the OS state is h (C10)
Volume(h) == ScalarToPercent(h.vol)

\* the caller's operation o succeeded right after its operation p, which
\* succeeded, both with the same input
Twice(p, o) ==
    /\ op[SeqCaller] = o /\ OpSucceeded(SeqCaller)
    /\ Prev.op = p /\ Prev.ok /\ Prev.inp = Cur.inp

\* C16: after set_volume(x) twice in a row get_volume has the value it had
\* after the first of the two, the normalized x, whichever path each of
\* the two calls took.
C16_SetVolumeIdempotent ==
    Twice("set_volume", "set_volume") =>
        /\ Volume(hw) = Volume(Cur.h0)
        /\ Volume(hw) = arg[SeqCaller]

\* set_volume("95.5") through the native interface, then again through the
\* helper: two different scalars, both read as 96
C16_Witness ==
    /\ Twice("set_volume", "set_volume") /\ Cur.inp = NumStr(955)
    /\ nircmd[SeqCaller]
    /\ Cur.h0.vol = Pct(96) /\ hw.vol # Pct(96)
    /\ Volume(hw) = 96

\* C17 as stated: volume_up(d) then volume_down(d) leaves get_volume within
\* one point of its value before the two, for every volume and every d.
C17_Original ==
    Twice("volume_up", "volume_down") =>
        Abs(Volume(hw) - ScalarToPercent(Prev.h0.vol)) <= 1

\* C17 amended: the same, provided the volume before plus d does not exceed
\* 100, so that volume_up did not stop at full volume.
C17_RoundTripBelowFull ==
    (Twice("volume_up", "volume_down")
            /\ ScalarToPercent(Prev.h0.vol) + arg[SeqCaller] <= 100) =>
        Abs(Volume(hw) - ScalarToPercent(Prev.h0.vol)) <= 1

\* volume_up() took the volume from 95 to 100 and volume_down() back to 95
C17_Witness ==
    /\ Twice("volume_up", "volume_down") /\ arg[SeqCaller] = DefaultDelta
    /\ Prev.h0.vol = Pct(95) /\ Volume(Cur.h0) = 100 /\ Volume(hw) = 95

\* C18: the mute operations leave the volume, and everything but their own
\* mute flag, as it was at the call; after volume_mute then volume_unmute
\* the volume is what it was before the mute.
C18_MuteKeepsVolume ==
    /\ op[SeqCaller] \in MuteOps =>
        /\ hw.vol = Cur.h0.vol /\ hw.bright = Cur.h0.bright
        /\ op[SeqCaller] \in {"volume_mute", "volume_unmute"} => hw.mic = Cur.h0.mic
        /\ op[SeqCaller] \in {"mic_mute", "mic_unmute"} => hw.mute = Cur.h0.mute
    /\ Twice("volume_mute", "volume_unmute") =>
        (hw.vol = Prev.h0.vol /\ ~hw.mute)

\* volume_mute muted the output through the native interface, volume_unmute
\* unmuted it, and the volume is the 95 it was
C18_Witness ==
    /\ Twice("volume_mute", "volume_unmute") /\ ~nircmd[SeqCaller]
    /\ Cur.h0.mute /\ ~hw.mute
    /\ Prev.h0.vol = Pct(95) /\ Volume(hw) = 95

\* C19: no public operation is left waiting in subprocess.run for a
\* process that never exits.  (A thread at "blocked" takes no further step:
\* its operation never returns, and if it is a mutating operation the lock
\* it holds is never released.)
C19_ExternalCallsReturn ==
    \A t \in Threads : pc[t] # "blocked"

\* the results an operation hands to its caller as a normal return
Normal == {"ok", "unit"}
\* the exceptions subprocess.run itself raises
RunErrors == (ProcessStarts \ {"started"}) \cup {"UnicodeDecodeError"}
\* C20 as stated: an operation in which a failure occurred ends in a
\* failure, unless it is get_brightness and no display reports a
\* brightness.
C20_Original ==
    \A t \in Threads :
        (pc[t] = "done" /\ fault[t] # "none") =>
            IF op[t] = "get_brightness" /\ fault[t] = "no display"
            THEN res[t] = Unit
            ELSE res[t].kind \notin Normal

\* C20 amended: every operation but get_brightness ends in a failure if a
\* validation, a helper lookup, the start or the exit of an external
\* process, a step of the native call or its CoUninitialize failed in it,
\* and the failure it raises is that one (the last one, when CoUninitialize
\* raised after another), and ends normally otherwise (a Release() that
\* raised leaves no trace); get_brightness raises only what subprocess.run
\* raises (powershell.exe cannot be started, its output is no text), and
\* returns None for every other failure of the bridge: a non-zero exit
\* code, unparsable output, or no display.
C20_FailuresSurfaced ==
    \A t \in Threads : pc[t] = "done" =>
        /\ op[t] # "get_brightness" =>
            /\ res[t].kind \in Normal <=> fault[t] = "none"
            /\ res[t].kind \notin Normal =>
                IF fault[t] = "validation"
                THEN res[t].kind \in {"ValueError", "OverflowError"}
                ELSE res[t].kind = fault[t]
        /\ op[t] = "get_brightness" =>
            /\ res[t].kind \in Normal \cup RunErrors
            /\ res[t].kind \in RunErrors <=> fault[t] \in RunErrors
            /\ res[t].kind \in RunErrors => res[t].kind = fault[t]
            /\ res[t] = Unit <=> fault[t] \notin {"none"} \cup RunErrors
            /\ fault[t] \in {"none", "RuntimeError: comando externo"} \cup RunErrors
                                \cup (BridgeOutputs \ {"value"})

\* set_brightness raised, and get_brightness has then returned None after
\* powershell.exe exited with a non-zero code
C20_Witness ==
    /\ op[SeqCaller] = "get_brightness" /\ pc[SeqCaller] = "done"
    /\ res[SeqCaller] = Unit
    /\ fault[SeqCaller] = "RuntimeError: comando externo"
    /\ Prev.op = "set_brightness" /\ ~Prev.ok /\ Prev.inp = Num(1500)

\* ---------------------------------------------------------------------
\* Operations whose result is a Percent.
PercentOps ==
    {"get_brightness", "set_brightness", "get_volume", "set_volume",
     "volume_up", "volume_down"}

\* C21: every Percent a public operation returns is an integer in 0 .. 100,
\* whatever the OS, the helper or the scripting bridge reports.
C21_PercentInRange ==
    \A t \in Threads :
        (pc[t] = "done" /\ op[t] \in PercentOps /\ res[t].kind = "ok")
            => res[t].val \in 0..100

\* The commands of the current operation of t that change the state the OS
\* owns: every helper command, the bridge's brightness write, and the
\* native writes.
MutationsIssued(t) ==
    Entries(t, "helper")
        \cup {i \in Entries(t, "bridge") : log[t][i].c = "WmiSetBrightness"}
        \cup NativeWrites(t)

\* Where an operation is once a backend has failed: cleaning up or leaving.
LeavingPcs == {"finally", "native_ret", "release", "done"}

\* C22: no retries and no fallback: an operation issues at most one command
\* that changes state, and once its backend has failed it only cleans up and
\* leaves with the error: a failed helper is not followed by the native
\* interface, and nothing runs after a missing helper or a failed native call.
C22_NoRetry ==
    \A t \in Threads :
        /\ Cardinality(MutationsIssued(t)) <= 1
        /\ fault[t] # "none" => pc[t] \in LeavingPcs
        /\ (fault[t] = "RuntimeError: comando externo" /\ op[t] \in MutatingOps) =>
            /\ Entries(t, "native") = {}
            /\ Cardinality(Entries(t, "helper") \cup Entries(t, "bridge")) = 1
            /\ pc[t] = "done" => res[t].kind = fault[t]
        /\ (fault[t] \in RunErrors /\ op[t] \in MutatingOps) =>
            /\ Entries(t, "native") = {}
            /\ Cardinality(Entries(t, "helper") \cup Entries(t, "bridge")) = 1
            /\ pc[t] = "done" => res[t].kind = fault[t]
        /\ fault[t] = "RuntimeError: NirCmd no disponible" =>
            Entries(t, "native") \cup Entries(t, "helper") = {}
        /\ fault[t] = "OSError: CoUninitialize" =>
            /\ pc[t] \in {"native_ret", "release", "done"}
            /\ pc[t] = "done" => res[t].kind = fault[t]
        /\ (fault[t] \in NativeErrors /\ op[t] \in MutatingOps /\ ~nircmd[t]) =>
            Entries(t, "helper") \cup Entries(t, "bridge") = {}

\* set_volume found the helper, the helper exited with a non-zero code, and
\* the operation has raised after that single command
C22_Witness ==
    /\ op[SeqCaller] = "set_volume" /\ pc[SeqCaller] = "done"
    /\ nircmd[SeqCaller]
    /\ fault[SeqCaller] = "RuntimeError: comando externo"
    /\ res[SeqCaller].kind = "RuntimeError: comando externo"
    /\ Cardinality(MutationsIssued(SeqCaller)) = 1
    /\ hw = Cur.h0

\* The operation of t has looked the helper up.
Probed(t) == Entries(t, "probe") # {}

\* C23: nothing of an earlier call decides the backend or the device: when
\* the helper's availability or the default device changed between two
\* operations, what the running operation found is what is there now and
\* the device its native call resolved is the default one now; between
\* operations nothing of the lookup or of the device is kept.
C23_FreshPerCall ==
    \A t \in Threads :
        /\ (op[t] \in MutatingOps /\ Probed(t)) => nircmd[t] = helper
        /\ com[t].dev # "none" => com[t].dev = hw.dev
        /\ pc[t] = "idle" => ~nircmd[t] /\ com[t] = NoCom

\* volume_up ran through the helper and read back from one device; the
\* helper was removed and the default device changed; the next volume_up
\* has succeeded through the native interface on the other device
C23_Witness ==
    /\ op[SeqCaller] = "volume_up" /\ OpSucceeded(SeqCaller)
    /\ Prev.op = "volume_up" /\ Prev.ok
    /\ Prev.found /\ ~nircmd[SeqCaller]
    /\ Prev.dev # "none" /\ com[SeqCaller].dev # "none"
    /\ Prev.dev # com[SeqCaller].dev
    /\ NativeWrites(SeqCaller) # {}

MicOps == {"mic_mute", "mic_unmute"}
OutputMuteOps == {"volume_mute", "volume_unmute"}

\* C26: mic_mute and mic_unmute act on the capture device only: the output
\* volume and the output mute flag stay as they were when the operation was
\* called, and a native call of theirs is made on the capture endpoint;
\* volume_mute and volume_unmute leave the microphone's mute flag as it was
\* and go to the render endpoint.  A successful operation has set its own
\* flag.  This holds through the helper and through the native interface.
C26_MicFrame ==
    LET t == SeqCaller IN
    /\ op[t] \in MicOps =>
        /\ hw.vol = Cur.h0.vol /\ hw.mute = Cur.h0.mute
        /\ com[t].cb # "none" => com[t].flow = EDATAFLOW_CAPTURE
        /\ OpSucceeded(t) => hw.mic = (op[t] = "mic_mute")
    /\ op[t] \in OutputMuteOps =>
        /\ hw.mic = Cur.h0.mic
        /\ com[t].cb # "none" => com[t].flow = EDATAFLOW_RENDER
        /\ OpSucceeded(t) => hw.mute = (op[t] = "volume_mute")

\* the output was muted natively, then mic_mute has muted the microphone
\* through the helper: both flags are set and the volume is the 95 it was
C26_Witness ==
    /\ op[SeqCaller] = "mic_mute" /\ OpSucceeded(SeqCaller) /\ nircmd[SeqCaller]
    /\ Prev.op = "volume_mute" /\ Prev.ok /\ ~Prev.h0.mute
    /\ Cur.h0.mute /\ ~Cur.h0.mic
    /\ hw.mute /\ hw.mic /\ hw.vol = Pct(95)

\* Both threads have finished the same relative adjustment o with success.
BothAdjusted(o) == \A t \in Threads : op[t] = o /\ OpSucceeded(t)

\* the sum of the two threads' deltas, in scalar units
DeltaSum == (arg["t1"] + arg["t2"]) * NircmdFullScale

\* C28: on the native path the read and the write of volume_up and
\* volume_down are made under one hold of the lock: from the read to the
\* return the thread holds the lock, and two concurrent calls volume_up(a)
\* and volume_up(b) that succeed from volume v end at min(100, v + a + b)
\* (two volume_down calls at max(0, v - a - b)): no update is lost.
C28_AdjustAtomic ==
    /\ \A t \in Threads :
        (op[t] \in AdjustOps /\ Probed(t) /\ pc[t] # "done") => lock = t
    /\ BothAdjusted("volume_up") => hw.vol = Min(VolFull, Cur.h0.vol + DeltaSum)
    /\ BothAdjusted("volume_down") => hw.vol = Max(0, Cur.h0.vol - DeltaSum)

\* volume_up(5) and volume_up(10) ran concurrently from volume 0 and both
\* succeeded: the volume is 15
C28_Witness ==
    /\ BothAdjusted("volume_up")
    /\ arg["t1"] = DefaultDelta /\ arg["t2"] = 10
    /\ Cur.h0.vol = Pct(0) /\ hw.vol = Pct(15)
    /\ res["t1"] = Val(5) /\ res["t2"] = Val(15)

\* ---------------------------------------------------------------------
\* Phrases: a text with known content, "<number>" or "<number> <unit
\* word>", the number written with digits, optionally a decimal mark and
\* more digits, optionally after a blank.
PhraseDigits == {"0", "1", "2", "4", "5", "6"}
DigitStrings(lo, hi) == UNION {[1..n -> PhraseDigits] : n \in lo..hi}
UnitWords == {Unidades[i].nombre : i \in DOMAIN Unidades}
Phrases ==
    [ent : DigitStrings(1, 2), frac : DigitStrings(0, 1), mark : {".", ","},
     unit : UnitWords \cup {<<>>}, lead : {<<>>, <<" ">>}]

Render(q) ==
    q.lead \o q.ent \o (IF q.frac = <<>> THEN <<>> ELSE <<q.mark>> \o q.frac)
           \o (IF q.unit = <<>> THEN <<>> ELSE <<" ">> \o q.unit)

\* the number a phrase states, as a fraction, and the seconds in its unit:
\* a unit word names seconds, minutes or hours by its first letter, and a
\* number without a unit word is in minutes
PhraseNum(q) == DigitsValue(q.ent \o q.frac)
PhraseDen(q) == Pow10(Len(q.frac))
PhraseFactor(q) ==
    IF q.unit = <<>> THEN 60
    ELSE CASE q.unit[1] = "s" -> 1 [] q.unit[1] = "m" -> 60 [] q.unit[1] = "h" -> 3600

\* the results the phrase allows: an integer nearest to number * factor, and
\* 1 when that is 0
PhraseSeconds(q) ==
    LET n == PhraseNum(q) * PhraseFactor(q)
        d == PhraseDen(q)
    IN {Max(r, 1) : r \in {r \in (n \div d)..(n \div d + 1) : 2 * Abs(r * d - n) <= d}}

PositivePhrases == {q \in Phrases : PhraseNum(q) > 0}
PositiveTexts == {Render(q) : q \in PositivePhrases}
DurationTable == UNION {{<<Render(q), v>> : v \in PhraseSeconds(q)} : q \in PositivePhrases}

\* C24: for a text that states a positive number, with or without a unit
\* word, parse_duration returns the number times 1 (seconds), 60 (minutes,
\* and no unit word) or 3600 (hours), rounded to an integer, and at least 1.
C24_DurationInSeconds ==
    (Applied("parse_duration") /\ App.x.k = "str" /\ App.x.s \in PositiveTexts) =>
        /\ App.out.kind = "ok"
        /\ App.out.val >= 1
        /\ <<App.x.s, App.out.val>> \in DurationTable

\* parse_duration("1.5 horas") has returned 5400
C24_Witness ==
    /\ Applied("parse_duration")
    /\ App.x = Str(<<"1", ".", "5", " ", "h", "o", "r", "a", "s">>)
    /\ App.out = Val(5400)

\* texts whose quantity is not positive: a phrase stating zero, and a
\* phrase with a minus sign before its number
NonPositiveTexts ==
    {Render(q) : q \in Phrases \ PositivePhrases}
        \cup {q.lead \o <<"-">> \o Render([q EXCEPT !.lead = <<>>]) : q \in PositivePhrases}

\* C25: parse_duration raises ValueError, and returns no duration, for None,
\* for an empty or blank text, for a text without a digit, and for a text
\* whose quantity is zero or negative.
C25_InvalidRejected ==
    (Applied("parse_duration")
        /\ \/ App.x = None
           \/ /\ App.x.k = "str"
              /\ \/ \A i \in 1..Len(App.x.s) : IsSpace(App.x.s[i])
                 \/ \A i \in 1..Len(App.x.s) : ~IsDigit(App.x.s[i])
                 \/ App.x.s \in NonPositiveTexts)
        => App.out.kind = "ValueError"

\* ---------------------------------------------------------------------
\* the tasks and timers now in the tables
Registered == sched.tasks \cup sched.timers

\* C27: once clear_all has returned, the on_trigger callback of a reminder
\* that was scheduled before the clear_all call is never invoked, and no
\* task scheduled before the call is in the task table or in the timer table.
C27_ClearAllSilences ==
    /\ sched.late = {}
    /\ \A e \in Registered : e.by \notin sched.doomed

\* C29: once the callback of a reminder has completed and program_reminder
\* has returned, the reminder's task is in neither table.
C29_FiredNotRegistered ==
    \A k \in sched.returned :
        sched.tm[k].st = "finished" => \A e \in Registered : e.by # k

\* C30: no two tasks ever created received the same id, and registering a
\* task never wrote over a different task that was still in the table.
C30_IdsUnique ==
    /\ \A e1 \in sched.made : \A e2 \in sched.made : e1.id = e2.id => e1 = e2
    /\ sched.over = {}

=========================================================================
